---- MODULE Spec2Model ----
(***************************************************************************)
(* bullet-mcp: the scoring engine of BulletServer (server.ts), in its two  *)
(* copies: the sections-capable server and the older single-mode server.   *)
(* A state holds the configuration given at construction, the last request  *)
(* handled and the response returned for it, and, for config.ts, the        *)
(* environment of the process and the DEFAULT_CONFIG object of the module.  *)
(***************************************************************************)
EXTENDS Integers, Sequences, FiniteSets, TLC

VARIABLES config, server, input, response, prev, processEnv, defaultConfig

vars == <<config, server, input, response, prev, processEnv, defaultConfig>>

(***************************************************************************)
(* JSON values as the handler receives them (input: unknown).               *)
(***************************************************************************)
Absent == [t |-> "undefined"]
Null == [t |-> "null"]
Str(s) == [t |-> "string", v |-> s]
Num(n) == [t |-> "number", v |-> n]
Arr(seq) == [t |-> "array", v |-> seq]
Obj(fields) == [t |-> "object", v |-> fields]

\* obj[key] of JavaScript: undefined for a missing property
Get(o, key) == IF o.t = "object" /\ key \in DOMAIN o.v THEN o.v[key] ELSE Absent

IsArray(x) == x.t = "array"
IsString(x) == x.t = "string"
\* typeof x === 'object' && x (arrays are objects, null is falsy)
IsObjectLike(x) == x.t \in {"object", "array"}

Truthy(x) ==
  CASE x.t = "undefined" -> FALSE
    [] x.t = "null" -> FALSE
    [] x.t = "string" -> x.v # ""
    [] x.t = "number" -> x.v # 0
    [] OTHER -> TRUE

(***************************************************************************)
(* Strings: the String.prototype methods the engine calls.                  *)
(***************************************************************************)
CharAt(s, i) == SubSeq(s, i, i)

IsSpace(c) == c \in {" ", "\t", "\n"}

RECURSIVE trimStart(_)
trimStart(s) ==
  IF Len(s) > 0 /\ IsSpace(CharAt(s, 1)) THEN trimStart(SubSeq(s, 2, Len(s))) ELSE s

RECURSIVE trimEnd(_)
trimEnd(s) ==
  IF Len(s) > 0 /\ IsSpace(CharAt(s, Len(s))) THEN trimEnd(SubSeq(s, 1, Len(s) - 1)) ELSE s

trim(s) == trimEnd(trimStart(s))

\* the members of a set of indices, in increasing order
RECURSIVE Ascending(_)
Ascending(S) ==
  IF S = {} THEN <<>>
  ELSE LET least == CHOOSE m \in S : \A o \in S : m <= o
       IN <<least>> \o Ascending(S \ {least})

\* s.split(/\s+/): the pieces between maximal runs of whitespace; a separator
\* at either end leaves an empty piece there
splitWhitespace(s) ==
  LET n == Len(s)
      inWord(i) == ~IsSpace(CharAt(s, i))
      starts == Ascending({i \in 1..n : inWord(i) /\ (i = 1 \/ ~inWord(i - 1))})
      stop(i) == CHOOSE j \in i..n : (\A m \in i..j : inWord(m)) /\ (j = n \/ ~inWord(j + 1))
      words == [k \in 1..Len(starts) |-> SubSeq(s, starts[k], stop(starts[k]))]
  IN IF n = 0 THEN <<"">>
     ELSE (IF inWord(1) THEN <<>> ELSE <<"">>) \o words
            \o (IF inWord(n) THEN <<>> ELSE <<"">>)

UpperLetters == <<"A", "B", "C", "D", "E", "F", "G", "H", "I", "J", "K", "L", "M",
                  "N", "O", "P", "Q", "R", "S", "T", "U", "V", "W", "X", "Y", "Z">>
LowerLetters == <<"a", "b", "c", "d", "e", "f", "g", "h", "i", "j", "k", "l", "m",
                  "n", "o", "p", "q", "r", "s", "t", "u", "v", "w", "x", "y", "z">>

IndexIn(letters, c) ==
  IF \E k \in DOMAIN letters : letters[k] = c
  THEN CHOOSE k \in DOMAIN letters : letters[k] = c
  ELSE 0

lowerChar(c) == IF IndexIn(UpperLetters, c) > 0 THEN LowerLetters[IndexIn(UpperLetters, c)] ELSE c
upperChar(c) == IF IndexIn(LowerLetters, c) > 0 THEN UpperLetters[IndexIn(LowerLetters, c)] ELSE c

\* the string is converted a half at a time
RECURSIVE toLowerCase(_)
toLowerCase(s) ==
  IF Len(s) = 0 THEN ""
  ELSE IF Len(s) = 1 THEN lowerChar(s)
  ELSE toLowerCase(SubSeq(s, 1, Len(s) \div 2)) \o toLowerCase(SubSeq(s, Len(s) \div 2 + 1, Len(s)))

\* s.replace(/[^a-z]/g, '')
RECURSIVE keepLowerLetters(_)
keepLowerLetters(s) ==
  IF Len(s) = 0 THEN ""
  ELSE IF Len(s) = 1 THEN (IF IndexIn(LowerLetters, s) > 0 THEN s ELSE "")
  ELSE keepLowerLetters(SubSeq(s, 1, Len(s) \div 2))
         \o keepLowerLetters(SubSeq(s, Len(s) \div 2 + 1, Len(s)))

includes(s, sub) ==
  \E i \in 1..(Len(s) - Len(sub) + 1) : SubSeq(s, i, i + Len(sub) - 1) = sub

endsWith(s, suffix) ==
  Len(s) >= Len(suffix) /\ SubSeq(s, Len(s) - Len(suffix) + 1, Len(s)) = suffix

\* arr.join(sep)
RECURSIVE join(_, _)
join(arr, sep) ==
  IF Len(arr) = 0 THEN ""
  ELSE IF Len(arr) = 1 THEN arr[1]
  ELSE arr[1] \o sep \o join(Tail(arr), sep)

\* s.substring(0, n)
substring0(s, n) == SubSeq(s, 1, IF n < Len(s) THEN n ELSE Len(s))

(***************************************************************************)
(* Arithmetic and array helpers.                                            *)
(***************************************************************************)
\* Math.max with its first argument dropped: a deduction is no longer floored
MaxUnfloored(a, b) == b

Max(a, b) == IF a > b THEN a ELSE b

\* the quotient cut off instead of rounded
TruncDiv(num, den) == num \div den

\* Math.round(num / den) for num >= 0, den > 0: halves round up
RoundDiv(num, den) == (2 * num + den) \div (2 * den)

\* Math.ceil(num / den) for num >= 0, den > 0
CeilDiv(num, den) == (num + den - 1) \div den

RECURSIVE SumSeq(_)
SumSeq(s) == IF Len(s) = 0 THEN 0 ELSE Head(s) + SumSeq(Tail(s))

RECURSIVE Flatten(_)
Flatten(ss) == IF Len(ss) = 0 THEN <<>> ELSE Head(ss) \o Flatten(Tail(ss))

\* arr.filter(...): the elements whose indices are in S, in the array's order
Pick(arr, S) == LET kept == Ascending(S) IN [j \in 1..Len(kept) |-> arr[kept[j]]]

(***************************************************************************)
(* constants.ts                                                             *)
(***************************************************************************)
\* LIST_LENGTH with the minimum one item too low
LIST_LENGTH_MinTwo == [MIN_ITEMS |-> 2, OPTIMAL_ITEMS |-> 5, MAX_ITEMS |-> 7, HARD_MAX_ITEMS |-> 9, POINTS |-> 20]

\* LIST_LENGTH with the hard maximum one item too high
LIST_LENGTH_HardMaxTen == [MIN_ITEMS |-> 3, OPTIMAL_ITEMS |-> 5, MAX_ITEMS |-> 7, HARD_MAX_ITEMS |-> 10, POINTS |-> 20]

LIST_LENGTH == [MIN_ITEMS |-> 3, OPTIMAL_ITEMS |-> 5, MAX_ITEMS |-> 7, HARD_MAX_ITEMS |-> 9, POINTS |-> 20]
HIERARCHY == [MAX_DEPTH |-> 2, HARD_MAX_DEPTH |-> 3, POINTS |-> 15]
\* LINE_LENGTH with the hard maximum taken inclusively: 80 characters are too long
LINE_LENGTH_InclusiveMax == [MIN_CHARS |-> 40, OPTIMAL_MIN_CHARS |-> 45, OPTIMAL_CHARS |-> 66, OPTIMAL_MAX_CHARS |-> 75, HARD_MAX_CHARS |-> 79, POINTS |-> 15]

LINE_LENGTH == [MIN_CHARS |-> 40, OPTIMAL_MIN_CHARS |-> 45, OPTIMAL_CHARS |-> 66,
                OPTIMAL_MAX_CHARS |-> 75, HARD_MAX_CHARS |-> 80, POINTS |-> 15]

\* SERIAL_POSITION with the primacy zone one position too wide
SERIAL_POSITION_WidePrimacy == [PRIMACY_ZONE |-> 3, RECENCY_ZONE |-> 1, POINTS |-> 15]

SERIAL_POSITION == [PRIMACY_ZONE |-> 2, RECENCY_ZONE |-> 1, POINTS |-> 15]
STRUCTURE == [POINTS |-> 20]
FIRST_WORDS == [CRITICAL_WORD_COUNT |-> 2, POINTS |-> 10]
FORMATTING == [POINTS |-> 5]
GRADES == [A |-> 90, B |-> 80, C |-> 70, D |-> 60, F |-> 0]

RESEARCH_CITATIONS ==
  [LIST_LENGTH |-> "Miller (1956), Cowan (2001): Working memory capacity 3-4 chunks; Columbia Business School: >3-4 key points decrease comprehension",
   HIERARCHY |-> "Kiger (1984), Zaphiris (2000), Nielsen: 2-level structures show fastest performance; >3 levels drops comprehension substantially",
   LINE_LENGTH |-> "Typography research: 45-75 chars optimal, 66 ideal; <40 causes excessive eye movements, >80 makes line tracking difficult",
   SERIAL_POSITION |-> "Ebbinghaus (1885), Murdock (1962): U-shaped retention curve; items at beginning and end recalled significantly better than middle",
   STRUCTURE |-> "Frazier et al. (1984): Parallel grammatical structure enables significantly faster reading through processing facilitation",
   FIRST_WORDS |-> "Nielsen eye-tracking: First 2 words are critical; readers fixate on initial words when deciding whether to read further",
   FORMATTING |-> "Usability research: Consistent punctuation/capitalization aids scanning; simple bullet symbols preferred"]

TOTAL_POINTS ==
  LIST_LENGTH.POINTS + HIERARCHY.POINTS + LINE_LENGTH.POINTS + SERIAL_POSITION.POINTS
    + STRUCTURE.POINTS + FIRST_WORDS.POINTS + FORMATTING.POINTS

IMPERATIVE_VERBS ==
  {"use", "create", "add", "remove", "update", "check", "ensure", "make", "set", "get",
   "run", "build", "test", "deploy", "configure", "install", "enable", "disable",
   "implement", "define", "write", "read", "delete", "move", "copy", "start", "stop",
   "open", "close", "send", "receive", "validate", "verify", "confirm", "select",
   "choose", "avoid", "include", "exclude", "maintain", "keep", "place", "put", "apply",
   "follow", "consider", "review", "analyze", "optimize", "limit", "maximize",
   "minimize", "target", "focus", "provide", "support", "handle", "process", "format",
   "parse", "convert", "transform", "organize", "structure", "break", "split", "merge",
   "combine", "group", "separate", "allow", "prevent", "require", "expect", "return",
   "call", "invoke", "execute", "perform", "complete", "finish", "begin", "continue",
   "repeat", "iterate", "loop", "track", "monitor", "log", "record", "store", "save",
   "load", "fetch", "retrieve", "display", "show", "hide", "render", "print", "export",
   "import"}

nonGerunds ==
  {"king", "ring", "thing", "string", "spring", "swing", "bring", "sing", "bling",
   "fling", "sling", "sting", "wing", "cling", "wring", "anything", "everything",
   "nothing", "something"}

determiners == {"the", "a", "an", "this", "that", "each", "every", "all", "some"}

copulas == {" is ", " are ", " was ", " were ", " has ", " have ", " will ", " can "}

(***************************************************************************)
(* BulletItem accessors: the property reads of the validators.              *)
(***************************************************************************)
\* item.text of an item that passed validation (a string)
Text(item) == Get(item, "text").v

\* item.children when truthy, as the array iterated; otherwise nothing
ChildrenOf(item) ==
  IF Truthy(Get(item, "children")) /\ IsArray(Get(item, "children"))
  THEN Get(item, "children").v ELSE <<>>

\* the value that stands for JavaScript's undefined among strings
undefined == "\\undefined"

Issue(rule, severity, message, suggestion) ==
  [rule |-> rule, severity |-> severity, message |-> message, suggestion |-> suggestion,
   research_basis |-> RESEARCH_CITATIONS[rule]]

IssueAt(rule, severity, message, index, suggestion) ==
  [rule |-> rule, severity |-> severity, message |-> message, item_index |-> index,
   suggestion |-> suggestion, research_basis |-> RESEARCH_CITATIONS[rule]]

RuleScore(rule, max, earned, issues) ==
  [rule |-> rule, max_points |-> max, earned_points |-> earned, issues |-> issues]

(***************************************************************************)
(* Helper methods of BulletServer.                                          *)
(***************************************************************************)
\* the depth taken from the top-level items' children only, without descending
calculateMaxDepthOneLevel(items, currentDepth) ==
  IF \E k \in 1..Len(items) :
       Truthy(Get(items[k], "children")) /\ Len(Get(items[k], "children").v) > 0
  THEN currentDepth + 1
  ELSE currentDepth

RECURSIVE calculateMaxDepth(_, _)
calculateMaxDepth(items, currentDepth) ==
  LET step[k \in 0..Len(items)] ==
        IF k = 0 THEN currentDepth
        ELSE IF Truthy(Get(items[k], "children")) /\ Len(ChildrenOf(items[k])) > 0
             THEN Max(step[k - 1], calculateMaxDepth(ChildrenOf(items[k]), currentDepth + 1))
             ELSE step[k - 1]
  IN step[Len(items)]

\* the lengths pushed by collectLengths, in visiting order
RECURSIVE collectLengths(_)
collectLengths(items) ==
  IF Len(items) = 0 THEN <<>>
  ELSE <<Len(Text(Head(items)))>> \o collectLengths(ChildrenOf(Head(items)))
       \o collectLengths(Tail(items))

calculateAvgLineLength(items) ==
  LET lengths == collectLengths(items)
  IN IF Len(lengths) = 0 THEN 0 ELSE RoundDiv(SumSeq(lengths), Len(lengths))

\* the thresholds read as exclusive
calculateGradeExclusive(score) ==
  IF score > GRADES.A THEN "A"
  ELSE IF score > GRADES.B THEN "B"
  ELSE IF score > GRADES.C THEN "C"
  ELSE IF score > GRADES.D THEN "D"
  ELSE "F"

calculateGrade(score) ==
  IF score >= GRADES.A THEN "A"
  ELSE IF score >= GRADES.B THEN "B"
  ELSE IF score >= GRADES.C THEN "C"
  ELSE IF score >= GRADES.D THEN "D"
  ELSE "F"

\* the keys of a Map filled by one pass over arr: first occurrences, in order
RECURSIVE insertionOrder(_)
insertionOrder(arr) ==
  IF Len(arr) = 0 THEN <<>>
  ELSE LET front == insertionOrder(SubSeq(arr, 1, Len(arr) - 1))
           last == arr[Len(arr)]
       IN IF \E k \in DOMAIN front : front[k] = last THEN front ELSE Append(front, last)

countOf(arr, x) == Cardinality({k \in DOMAIN arr : arr[k] = x})

\* the scan giving up on a tie: no value is returned when two keys hold the
\* largest count
mostCommonOfMapUnlessTied(arr) ==
  LET keys == insertionOrder(arr)
      best == {k \in 1..Len(keys) :
                 \A o \in 1..Len(keys) : countOf(arr, keys[o]) <= countOf(arr, keys[k])}
  IN IF Cardinality(best) > 1 THEN undefined ELSE keys[CHOOSE k \in best : TRUE]

\* counts.forEach over the Map, keeping the first key whose count exceeds maxCount
mostCommonOfMap(arr) ==
  LET keys == insertionOrder(arr)
      scan[k \in 0..Len(keys)] ==
        IF k = 0 THEN [maxCount |-> 0, mostCommon |-> arr[1]]
        ELSE LET before == scan[k - 1]
                 count == countOf(arr, keys[k])
             IN IF count > before.maxCount
                THEN [maxCount |-> count, mostCommon |-> keys[k]]
                ELSE before
  IN scan[Len(keys)].mostCommon

\* the scan taking a key whose count equals maxCount too: the last key holding
\* the largest count is kept
getMostCommonLast(arr) ==
  IF Len(arr) = 0 THEN undefined
  ELSE LET keys == insertionOrder(arr)
           best == {k \in 1..Len(keys) :
                      \A o \in 1..Len(keys) : countOf(arr, keys[o]) <= countOf(arr, keys[k])}
       IN keys[CHOOSE k \in best : \A o \in best : o <= k]

getMostCommon(arr) == IF Len(arr) = 0 THEN undefined ELSE mostCommonOfMap(arr)

\* the single-mode copy has no empty-array guard: arr[0] is undefined there
getMostCommonSingle(arr) == IF Len(arr) = 0 THEN undefined ELSE mostCommonOfMap(arr)

firstWordOf(text) == keepLowerLetters(toLowerCase(splitWhitespace(trim(text))[1]))

detectGrammarPattern(text) ==
  LET firstWord == firstWordOf(text)
      textLower == toLowerCase(text)
  IN IF firstWord \in IMPERATIVE_VERBS THEN "verb-imperative"
     ELSE IF endsWith(firstWord, "ing") /\ Len(firstWord) > 4 /\ firstWord \notin nonGerunds
     THEN "verb-gerund"
     ELSE IF firstWord \in determiners THEN "noun-phrase"
     ELSE IF \E c \in copulas : includes(textLower, c) THEN "sentence"
     ELSE "unknown"

detectGrammarPatternSingle(text) ==
  LET firstWord == firstWordOf(text)
      textLower == toLowerCase(text)
  IN IF firstWord \in IMPERATIVE_VERBS THEN "verb-imperative"
     ELSE IF endsWith(firstWord, "ing") /\ Len(firstWord) > 4 THEN "verb-gerund"
     ELSE IF firstWord \in determiners THEN "noun-phrase"
     ELSE IF \E c \in copulas : includes(textLower, c) THEN "sentence"
     ELSE "unknown"

(***************************************************************************)
(* The texts the requests are written in. What the engine derives from one  *)
(* text alone is tabulated once for these texts; any other text is computed *)
(* when it is met.                                                          *)
(***************************************************************************)
TextGood == "Keep every bullet between forty-five and seventy-five characters."
TextSlight == "Review the deployment checklist with the whole team before every single release"
TextLong == "Use the staging cluster to validate each release candidate before promoting it to production."
\* texts of 39, 40, 75, 76, 80 and 81 characters: one on each side of MIN_CHARS,
\* OPTIMAL_MAX_CHARS and HARD_MAX_CHARS
TextReview == "Review the deployment checklist before each release."
Text39 == "Check the nightly backup logs each day."
Text40 == "Check the nightly backup logs every day."
Text75 == "Check the nightly backup logs and confirm that every scheduled job is done."
Text76 == "Check the nightly backup logs and confirm that every scheduled job finished."
Text80 == "Check the nightly backup logs and confirm that every scheduled job has finished."
Text81 == "Check the nightly backup logs and confirm that every scheduled job has completed."

Vocabulary ==
  {"Use cats.", "Use dogs.", "building the index takes time", "The cache is warm:",
   "Servers are restarted nightly", "Quarterly revenue", "String handling",
   TextGood, TextSlight, TextLong, TextReview, Text39, Text40, Text75}

patternTable == [t \in Vocabulary |-> detectGrammarPattern(t)]
patternTableSingle == [t \in Vocabulary |-> detectGrammarPatternSingle(t)]

patternOf(text) ==
  IF text \in Vocabulary THEN patternTable[text] ELSE detectGrammarPattern(text)
patternOfSingle(text) ==
  IF text \in Vocabulary THEN patternTableSingle[text] ELSE detectGrammarPatternSingle(text)

(***************************************************************************)
(* The seven validators.                                                    *)
(***************************************************************************)
validateListLength(items) ==
  LET count == Len(items)
  IN IF count > LIST_LENGTH.HARD_MAX_ITEMS
     THEN RuleScore("LIST_LENGTH", LIST_LENGTH.POINTS, 0,
            <<Issue("LIST_LENGTH", "error",
                "List has " \o ToString(count) \o " items, exceeds maximum of "
                  \o ToString(LIST_LENGTH.HARD_MAX_ITEMS),
                "Subdivide into " \o ToString(CeilDiv(count, LIST_LENGTH.OPTIMAL_ITEMS))
                  \o " categorized groups of ~" \o ToString(LIST_LENGTH.OPTIMAL_ITEMS)
                  \o " items each")>>)
     ELSE IF count > LIST_LENGTH.MAX_ITEMS
     THEN RuleScore("LIST_LENGTH", LIST_LENGTH.POINTS, Max(0, LIST_LENGTH.POINTS - 10),
            <<Issue("LIST_LENGTH", "warning",
                "List has " \o ToString(count) \o " items, exceeds recommended maximum of "
                  \o ToString(LIST_LENGTH.MAX_ITEMS),
                "Consider subdividing or removing less critical items")>>)
     ELSE IF count < LIST_LENGTH.MIN_ITEMS
     THEN RuleScore("LIST_LENGTH", LIST_LENGTH.POINTS, Max(0, LIST_LENGTH.POINTS - 5),
            <<Issue("LIST_LENGTH", "suggestion",
                "List has only " \o ToString(count) \o " item(s), below minimum of "
                  \o ToString(LIST_LENGTH.MIN_ITEMS),
                IF count = 1 THEN "Consider using prose instead of a single bullet"
                ELSE "Consider adding more detail or using prose instead")>>)
     ELSE RuleScore("LIST_LENGTH", LIST_LENGTH.POINTS, LIST_LENGTH.POINTS, <<>>)

\* the check with the error branch deducting what the warning branch deducts
validateHierarchyLenient(items) ==
  LET maxDepth == calculateMaxDepth(items, 1)
  IN IF maxDepth > HIERARCHY.HARD_MAX_DEPTH
     THEN RuleScore("HIERARCHY", HIERARCHY.POINTS, Max(0, HIERARCHY.POINTS - 8),
            <<Issue("HIERARCHY", "error",
                "Hierarchy depth of " \o ToString(maxDepth) \o " exceeds usable maximum of "
                  \o ToString(HIERARCHY.HARD_MAX_DEPTH),
                "Flatten structure or use a table for complex relationships")>>)
     ELSE IF maxDepth > HIERARCHY.MAX_DEPTH
     THEN RuleScore("HIERARCHY", HIERARCHY.POINTS, Max(0, HIERARCHY.POINTS - 8),
            <<Issue("HIERARCHY", "warning",
                "Hierarchy depth of " \o ToString(maxDepth)
                  \o " exceeds recommended maximum of " \o ToString(HIERARCHY.MAX_DEPTH),
                "Consider flattening to 2 levels for better comprehension")>>)
     ELSE RuleScore("HIERARCHY", HIERARCHY.POINTS, HIERARCHY.POINTS, <<>>)

validateHierarchy(items) ==
  LET maxDepth == calculateMaxDepth(items, 1)
  IN IF maxDepth > HIERARCHY.HARD_MAX_DEPTH
     THEN RuleScore("HIERARCHY", HIERARCHY.POINTS, 0,
            <<Issue("HIERARCHY", "error",
                "Hierarchy depth of " \o ToString(maxDepth) \o " exceeds usable maximum of "
                  \o ToString(HIERARCHY.HARD_MAX_DEPTH),
                "Flatten structure or use a table for complex relationships")>>)
     ELSE IF maxDepth > HIERARCHY.MAX_DEPTH
     THEN RuleScore("HIERARCHY", HIERARCHY.POINTS, Max(0, HIERARCHY.POINTS - 8),
            <<Issue("HIERARCHY", "warning",
                "Hierarchy depth of " \o ToString(maxDepth)
                  \o " exceeds recommended maximum of " \o ToString(HIERARCHY.MAX_DEPTH),
                "Consider flattening to 2 levels for better comprehension")>>)
     ELSE RuleScore("HIERARCHY", HIERARCHY.POINTS, HIERARCHY.POINTS, <<>>)

\* checkItem of validateLineLength: the issues pushed and the penalty added for
\* one item and, recursively, its children
RECURSIVE checkItem(_, _)
checkItem(item, index) ==
  LET length == Len(Text(item))
      own ==
        IF length > LINE_LENGTH.HARD_MAX_CHARS
        THEN [issues |-> <<IssueAt("LINE_LENGTH", "warning",
                 "Item " \o ToString(index + 1) \o " is too long (" \o ToString(length)
                   \o " chars), exceeds readable maximum of "
                   \o ToString(LINE_LENGTH.HARD_MAX_CHARS),
                 index, "Break into two bullets or trim to essential information")>>,
              penalty |-> 5]
        ELSE IF length > LINE_LENGTH.OPTIMAL_MAX_CHARS
        THEN [issues |-> <<IssueAt("LINE_LENGTH", "suggestion",
                 "Item " \o ToString(index + 1) \o " is slightly long (" \o ToString(length)
                   \o " chars), above optimal of " \o ToString(LINE_LENGTH.OPTIMAL_MAX_CHARS),
                 index, "Consider trimming for easier scanning")>>,
              penalty |-> 2]
        ELSE IF length < LINE_LENGTH.MIN_CHARS /\ length > 0
        THEN [issues |-> <<IssueAt("LINE_LENGTH", "suggestion",
                 "Item " \o ToString(index + 1) \o " is short (" \o ToString(length)
                   \o " chars), may appear sparse",
                 index, "Consider adding detail or combining with a related point")>>,
              penalty |-> 1]
        ELSE [issues |-> <<>>, penalty |-> 0]
      kids == ChildrenOf(item)
      walk[k \in 0..Len(kids)] ==
        IF k = 0 THEN own
        ELSE LET before == walk[k - 1]
                 sub == checkItem(kids[k], index * 100 + (k - 1))
             IN [issues |-> before.issues \o sub.issues,
                 penalty |-> before.penalty + sub.penalty]
  IN walk[Len(kids)]

validateLineLength(items) ==
  LET walk[k \in 0..Len(items)] ==
        IF k = 0 THEN [issues |-> <<>>, penalty |-> 0]
        ELSE LET before == walk[k - 1]
                 sub == checkItem(items[k], k - 1)
             IN [issues |-> before.issues \o sub.issues,
                 penalty |-> before.penalty + sub.penalty]
      done == walk[Len(items)]
      totalPenalty == done.penalty
  IN RuleScore("LINE_LENGTH", LINE_LENGTH.POINTS, Max(0, LINE_LENGTH.POINTS - totalPenalty),
               done.issues)

validateSerialPosition(items) ==
  LET n == Len(items)
      hasImportance == \E k \in 1..n : Truthy(Get(items[k], "importance"))
      inValley(k) ==
        /\ Get(items[k], "importance") = Str("high")
        /\ ~((k - 1) < SERIAL_POSITION.PRIMACY_ZONE)
        /\ ~((k - 1) >= n - SERIAL_POSITION.RECENCY_ZONE)
      shortText(k) ==
        IF Len(Text(items[k])) > 40 THEN substring0(Text(items[k]), 40) \o "..."
        ELSE Text(items[k])
      valley == Ascending({k \in 1..n : inValley(k)})
      warn(k) ==
        IssueAt("SERIAL_POSITION", "warning",
          "High-importance item \"" \o shortText(k) \o "\" is in recall valley (position "
            \o ToString(k) \o ")",
          k - 1,
          "Move to position 1, 2, or " \o ToString(n) \o " for better recall")
  IN IF hasImportance /\ n > 3
     THEN RuleScore("SERIAL_POSITION", SERIAL_POSITION.POINTS,
            Max(0, SERIAL_POSITION.POINTS - 5 * Len(valley)),
            [j \in 1..Len(valley) |-> warn(valley[j])])
     ELSE IF n > 4
     THEN RuleScore("SERIAL_POSITION", SERIAL_POSITION.POINTS, Max(0, SERIAL_POSITION.POINTS),
            <<Issue("SERIAL_POSITION", "suggestion",
                "Consider placing most critical information in positions 1, 2, or "
                  \o ToString(n),
                "Items in positions 3-" \o ToString(n - 1)
                  \o " are in the \"recall valley\" with lower retention")>>)
     ELSE RuleScore("SERIAL_POSITION", SERIAL_POSITION.POINTS,
            Max(0, SERIAL_POSITION.POINTS), <<>>)

\* the condition without its last conjunct: items are penalised against an
\* `unknown` dominant pattern too
structurePenalisedAnyDominant(pattern, dominantPattern) ==
  /\ dominantPattern # undefined /\ dominantPattern # ""
  /\ pattern # "unknown"
  /\ pattern # dominantPattern

structurePenalised(pattern, dominantPattern) ==
  /\ dominantPattern # undefined /\ dominantPattern # ""
  /\ pattern # "unknown"
  /\ pattern # dominantPattern
  /\ dominantPattern # "unknown"

structurePenalisedSingle(pattern, dominantPattern) ==
  /\ pattern # "unknown"
  /\ pattern # dominantPattern
  /\ dominantPattern # "unknown"

\* the body shared by the two copies of validateStructure: patterns.forEach
structureScore(patterns, dominantPattern, guarded) ==
  LET n == Len(patterns)
      hit(k) == IF guarded THEN structurePenalised(patterns[k], dominantPattern)
                ELSE structurePenalisedSingle(patterns[k], dominantPattern)
      odd == Ascending({k \in 1..n : hit(k)})
      warn(k) ==
        IssueAt("STRUCTURE", "warning",
          "Item " \o ToString(k) \o " uses \"" \o patterns[k]
            \o "\" pattern while most items use \"" \o dominantPattern \o "\"",
          k - 1,
          "Rewrite to match the \"" \o dominantPattern \o "\" pattern for consistency")
  IN RuleScore("STRUCTURE", STRUCTURE.POINTS, Max(0, STRUCTURE.POINTS - 4 * Len(odd)),
               [j \in 1..Len(odd) |-> warn(odd[j])])

\* validateStructure once the items are classified: items.length is the number
\* of patterns
structureOfPatterns(patterns) ==
  IF Len(patterns) < 2
  THEN RuleScore("STRUCTURE", STRUCTURE.POINTS, STRUCTURE.POINTS, <<>>)
  ELSE structureScore(patterns, getMostCommon(patterns), TRUE)

structureOfPatternsSingle(patterns) ==
  IF Len(patterns) < 2
  THEN RuleScore("STRUCTURE", STRUCTURE.POINTS, STRUCTURE.POINTS, <<>>)
  ELSE structureScore(patterns, getMostCommonSingle(patterns), FALSE)

validateStructure(items) ==
  structureOfPatterns([k \in 1..Len(items) |-> patternOf(Text(items[k]))])

validateStructureSingle(items) ==
  structureOfPatternsSingle([k \in 1..Len(items) |-> patternOfSingle(Text(items[k]))])

\* words.slice(0, CRITICAL_WORD_COUNT).join(' ').toLowerCase()
firstWordsKey(text) ==
  LET words == splitWhitespace(trim(text))
      n == IF Len(words) < FIRST_WORDS.CRITICAL_WORD_COUNT THEN Len(words)
           ELSE FIRST_WORDS.CRITICAL_WORD_COUNT
  IN toLowerCase(join(SubSeq(words, 1, n), " "))

firstWordsTable == [t \in Vocabulary |-> firstWordsKey(t)]

firstWordsOf(text) == IF text \in Vocabulary THEN firstWordsTable[text] ELSE firstWordsKey(text)

\* a warning and a deduction for every item of a duplicate group, not one per group
validateFirstWordsPerItem(items) ==
  LET firstWords == [k \in 1..Len(items) |-> firstWordsOf(Text(items[k]))]
      repeated == Ascending({k \in 1..Len(items) :
                               \E o \in 1..Len(items) : o # k /\ firstWords[o] = firstWords[k]})
      warn(k) ==
        Issue("FIRST_WORDS", "warning",
          "Items " \o ToString(k) \o " start with similar words \"" \o firstWords[k] \o "\"",
          "Vary the opening words to help readers quickly distinguish between items")
  IN RuleScore("FIRST_WORDS", FIRST_WORDS.POINTS, Max(0, FIRST_WORDS.POINTS - 3 * Len(repeated)),
               [j \in 1..Len(repeated) |-> warn(repeated[j])])

validateFirstWords(items) ==
  LET firstWords == [k \in 1..Len(items) |-> firstWordsOf(Text(items[k]))]
      keys == insertionOrder(firstWords)
      indices(words) == Ascending({k \in 1..Len(items) : firstWords[k] = words})
      isGroup(words) == Len(indices(words)) > 1
      groups == Pick(keys, {j \in 1..Len(keys) : isGroup(keys[j])})
      warn(words) ==
        Issue("FIRST_WORDS", "warning",
          "Items " \o join([j \in 1..Len(indices(words)) |-> ToString(indices(words)[j])], ", ")
            \o " start with similar words \"" \o words \o "\"",
          "Vary the opening words to help readers quickly distinguish between items")
  IN RuleScore("FIRST_WORDS", FIRST_WORDS.POINTS, Max(0, FIRST_WORDS.POINTS - 3 * Len(groups)),
               [j \in 1..Len(groups) |-> warn(groups[j])])

endClass(text) ==
  LET t == trim(text)
      lastChar == CharAt(t, Len(t))
  IN IF lastChar \in {".", "!", "?"} THEN "sentence"
     ELSE IF lastChar = ":" THEN "colon"
     ELSE "none"

capClass(text) ==
  LET firstChar == CharAt(trim(text), 1)
  IN IF firstChar = upperChar(firstChar) THEN "upper" ELSE "lower"

endTable == [t \in Vocabulary |-> endClass(t)]
capTable == [t \in Vocabulary |-> capClass(t)]

endOf(text) == IF text \in Vocabulary THEN endTable[text] ELSE endClass(text)
capOf(text) == IF text \in Vocabulary THEN capTable[text] ELSE capClass(text)

\* the body shared by the two copies of validateFormatting
formattingScore(endChars, dominantEnd, capitalizations, dominantCap, guarded) ==
  LET inconsistentEnds ==
        IF guarded /\ (dominantEnd = undefined \/ dominantEnd = "") THEN 0
        ELSE Cardinality({k \in 1..Len(endChars) : endChars[k] # dominantEnd})
      endsOff ==
        /\ guarded => (dominantEnd # undefined /\ dominantEnd # "")
        /\ inconsistentEnds > 0
        /\ inconsistentEnds < Len(endChars)
      inconsistentCaps ==
        IF guarded /\ (dominantCap = undefined \/ dominantCap = "") THEN 0
        ELSE Cardinality({k \in 1..Len(capitalizations) : capitalizations[k] # dominantCap})
      capsOff ==
        /\ guarded => (dominantCap # undefined /\ dominantCap # "")
        /\ inconsistentCaps > 0
        /\ inconsistentCaps < Len(capitalizations)
      endIssue ==
        Issue("FORMATTING", "suggestion",
          "Inconsistent ending punctuation: " \o ToString(inconsistentEnds)
            \o " items differ from the majority",
          IF dominantEnd = "sentence" THEN "Add periods to all items for consistency"
          ELSE "Remove periods from all items for consistency")
      capIssue ==
        Issue("FORMATTING", "suggestion",
          "Inconsistent capitalization: " \o ToString(inconsistentCaps)
            \o " items differ from the majority",
          IF dominantCap = "upper" THEN "Capitalize the first letter of all items"
          ELSE "Use lowercase for the first letter of all items")
      points == FORMATTING.POINTS - (IF endsOff THEN 2 ELSE 0) - (IF capsOff THEN 2 ELSE 0)
  IN RuleScore("FORMATTING", FORMATTING.POINTS, Max(0, points),
               (IF endsOff THEN <<endIssue>> ELSE <<>>) \o (IF capsOff THEN <<capIssue>> ELSE <<>>))

\* the capitalization check hung on the ending check as an else-branch: when the
\* endings are inconsistent the capitalizations are not looked at
validateFormattingElseIf(items) ==
  IF Len(items) < 2
  THEN RuleScore("FORMATTING", FORMATTING.POINTS, FORMATTING.POINTS, <<>>)
  ELSE LET endChars == [k \in 1..Len(items) |-> endOf(Text(items[k]))]
           endsDiffer == \E k \in 1..Len(items) : endChars[k] # endChars[1]
           capitalizations == [k \in 1..Len(items) |->
                                IF endsDiffer THEN "upper" ELSE capOf(Text(items[k]))]
       IN formattingScore(endChars, getMostCommon(endChars),
                          capitalizations, getMostCommon(capitalizations), TRUE)

validateFormatting(items) ==
  IF Len(items) < 2
  THEN RuleScore("FORMATTING", FORMATTING.POINTS, FORMATTING.POINTS, <<>>)
  ELSE LET endChars == [k \in 1..Len(items) |-> endOf(Text(items[k]))]
           capitalizations == [k \in 1..Len(items) |-> capOf(Text(items[k]))]
       IN formattingScore(endChars, getMostCommon(endChars),
                          capitalizations, getMostCommon(capitalizations), TRUE)

validateFormattingSingle(items) ==
  IF Len(items) < 2
  THEN RuleScore("FORMATTING", FORMATTING.POINTS, FORMATTING.POINTS, <<>>)
  ELSE LET endChars == [k \in 1..Len(items) |-> endOf(Text(items[k]))]
           capitalizations == [k \in 1..Len(items) |-> capOf(Text(items[k]))]
       IN formattingScore(endChars, getMostCommonSingle(endChars),
                          capitalizations, getMostCommonSingle(capitalizations), FALSE)

(***************************************************************************)
(* Aggregation.                                                             *)
(***************************************************************************)
severityOrder == [error |-> 0, warning |-> 1, suggestion |-> 2]

\* issue.suggestion is truthy
hasSuggestion(i) == "suggestion" \in DOMAIN i /\ i.suggestion # ""

\* the filter alone: the issues stay in the order the validators pushed them
withoutSort(issues) == Pick(issues, {k \in 1..Len(issues) : hasSuggestion(issues[k])})

\* issues.filter(...).sort(by severityOrder): Array.prototype.sort is stable
sortBySeverity(issues) ==
  LET withSuggestion == Pick(issues, {k \in 1..Len(issues) : hasSuggestion(issues[k])})
  IN Flatten([r \in 1..3 |->
       Pick(withSuggestion, {k \in 1..Len(withSuggestion) :
                               severityOrder[withSuggestion[k].severity] = r - 1})])

\* the dedupe loop: unseen suggestions are pushed until three are held
RECURSIVE pushUnseen(_, _, _)
pushUnseen(sorted, k, unique) ==
  IF k > Len(sorted) \/ Len(unique) >= 3 THEN unique
  ELSE IF \E j \in DOMAIN unique : unique[j] = sorted[k].suggestion
  THEN pushUnseen(sorted, k + 1, unique)
  ELSE pushUnseen(sorted, k + 1, Append(unique, sorted[k].suggestion))

uniqueSuggestions(sorted) == pushUnseen(sorted, 1, <<>>)

getImprovementDescription(score, itemCount) ==
  IF itemCount = 0 THEN "Your bullet list follows best practices."
  ELSE IF score >= 90 THEN "Minor tweaks to make your bullet list even better."
  ELSE IF score >= 70 THEN "A few adjustments would improve readability and recall."
  ELSE "These changes will significantly improve your bullet list."

getTopImprovements(issues, score) ==
  LET unique == uniqueSuggestions(sortBySeverity(issues))
  IN [title |-> "Suggested Improvements",
      description |-> getImprovementDescription(score, Len(unique)),
      intro |-> IF Len(unique) > 0 THEN "Consider the following changes:" ELSE "",
      items |-> unique]

getTopImprovementsSingle(issues) == uniqueSuggestions(sortBySeverity(issues))

generateSummary(score, errorCount, warningCount) ==
  IF score >= 90 /\ errorCount = 0
  THEN "Excellent bullet list following evidence-based best practices."
  ELSE IF score >= 80 /\ errorCount = 0
  THEN "Good bullet list with minor improvements possible."
  ELSE IF score >= 70
  THEN "Adequate bullet list. " \o ToString(warningCount) \o " issue(s) may impact effectiveness."
  ELSE IF errorCount > 0
  THEN "Bullet list has " \o ToString(errorCount) \o " critical issue(s) that should be addressed."
  ELSE "Bullet list needs improvement. Review " \o ToString(warningCount)
         \o " warning(s) for better results."

patternsNotUnknown(patterns) == {patterns[k] : k \in 1..Len(patterns)} \ {"unknown"}

heterogeneityFit(uniquePatterns) ==
  IF uniquePatterns > 2
  THEN [fit |-> "good",
        feedback |-> "Content appears heterogeneous. Bullets work best with related, similar items. Consider grouping by category."]
  ELSE [fit |-> "excellent"]

presentationFit ==
  [fit |-> "poor",
   feedback |-> "3M research shows presentations are 43% more persuasive with visuals instead of bullets. Consider using graphics with narration."]

\* the fit judged from the items alone, whatever the declared context
analyzeContextByContent(items, context) ==
  heterogeneityFit(Cardinality(patternsNotUnknown(
    [k \in 1..Len(items) |-> patternOf(Text(items[k]))])))

analyzeContext(items, context) ==
  IF context = "presentation" THEN presentationFit
  ELSE IF context = "reference"
  THEN IF calculateMaxDepth(items, 1) = 1 /\ Len(items) > 5
       THEN [fit |-> "good",
             feedback |-> "For reference materials, consider using hierarchy (sub-bullets) to group related items for faster lookup."]
       ELSE [fit |-> "excellent",
             feedback |-> "Well-structured for reference use. Ensure consistent formatting for quick scanning."]
  ELSE heterogeneityFit(Cardinality(patternsNotUnknown(
         [k \in 1..Len(items) |-> patternOf(Text(items[k]))])))

analyzeContextSingle(items, context) ==
  IF context = "presentation" THEN presentationFit
  ELSE heterogeneityFit(Cardinality(patternsNotUnknown(
         [k \in 1..Len(items) |-> patternOfSingle(Text(items[k]))])))

\* const { research_basis, ...rest } = i
stripCitation(i) == [f \in DOMAIN i \ {"research_basis"} |-> i[f]]

\* the `scores` field of the report, by enableResearchCitations
scoresView(cfg, scores) ==
  IF cfg.validation.enableResearchCitations THEN scores
  ELSE [k \in 1..Len(scores) |->
         [scores[k] EXCEPT !.issues = [j \in 1..Len(scores[k].issues) |->
                                         stripCitation(scores[k].issues[j])]]]

\* { ...w, severity: 'error' }
promote(w) == [w EXCEPT !.severity = "error"]

\* the strict-mode step dropping the warnings instead of promoting them
strictBucketsDropping(cfg, errors, warnings) ==
  IF cfg.validation.strictMode
  THEN [errors |-> errors, warnings |-> <<>>]
  ELSE [errors |-> errors, warnings |-> warnings]

\* the errors and warnings buckets after the strict-mode step
strictBuckets(cfg, errors, warnings) ==
  IF cfg.validation.strictMode
  THEN [errors |-> errors \o [k \in 1..Len(warnings) |-> promote(warnings[k])],
        warnings |-> <<>>]
  ELSE [errors |-> errors, warnings |-> warnings]

bySeverity(issues, severity) == Pick(issues, {k \in 1..Len(issues) : issues[k].severity = severity})

\* ...(title && { title }), ...(description && { description }), ...(intro && { intro })
headerFields(title, description, intro) ==
  LET given == [title |-> title, description |-> description, intro |-> intro]
  IN [f \in {g \in DOMAIN given : Truthy(given[g])} |-> given[f].v]

\* JSON.stringify drops a property whose value is undefined
withFeedback(report, contextAnalysis) ==
  IF "feedback" \in DOMAIN contextAnalysis
  THEN report @@ [context_feedback |-> contextAnalysis.feedback]
  ELSE report

runValidators(items) ==
  <<validateListLength(items), validateHierarchy(items), validateLineLength(items),
    validateSerialPosition(items), validateStructure(items), validateFirstWords(items),
    validateFormatting(items)>>

runValidatorsSingle(items) ==
  <<validateListLength(items), validateHierarchy(items), validateLineLength(items),
    validateSerialPosition(items), validateStructureSingle(items), validateFirstWords(items),
    validateFormattingSingle(items)>>

totalEarnedOf(scores) == SumSeq([k \in 1..Len(scores) |-> scores[k].earned_points])

\* Math.round((totalEarned / TOTAL_POINTS) * 100)
percentOf(totalEarned) == RoundDiv(totalEarned * 100, TOTAL_POINTS)

issuesOf(scores) == Flatten([k \in 1..Len(scores) |-> scores[k].issues])

\* analyzeFlat, last step: the BulletAnalysis object is built and returned
flatReport(cfg, items, header, scores, overallScore, allIssues, buckets, contextAnalysis) ==
  [content |->
     withFeedback(
       header @@
       [overall_score |-> overallScore,
        grade |-> calculateGrade(overallScore),
        scores |-> scoresView(cfg, scores),
        errors |-> buckets.errors,
        warnings |-> buckets.warnings,
        suggestions |-> bySeverity(allIssues, "suggestion"),
        summary |-> generateSummary(overallScore, Len(buckets.errors), Len(buckets.warnings)),
        top_improvements |-> getTopImprovements(allIssues, overallScore),
        item_count |-> Len(items),
        max_depth |-> calculateMaxDepth(items, 1),
        avg_line_length |-> calculateAvgLineLength(items),
        context_fit |-> contextAnalysis.fit],
       contextAnalysis)]

\* analyzeFlat, after the validators have run: the score, the issues by severity
\* and the strict-mode step
flatScored(cfg, items, header, scores, overallScore, allIssues, contextAnalysis) ==
  flatReport(cfg, items, header, scores, overallScore, allIssues,
             strictBuckets(cfg, bySeverity(allIssues, "error"), bySeverity(allIssues, "warning")),
             contextAnalysis)

flatValidated(cfg, items, header, scores, contextAnalysis) ==
  flatScored(cfg, items, header, scores, percentOf(totalEarnedOf(scores)), issuesOf(scores),
             contextAnalysis)

analyzeFlat(cfg, items, context, title, description, intro) ==
  flatValidated(cfg, items, headerFields(title, description, intro), runValidators(items),
                analyzeContext(items, context))

(***************************************************************************)
(* Sectioned mode.                                                          *)
(***************************************************************************)
\* message: `[${section.title}] ${issue.message}`
prefixIssue(sectionTitle, issue) ==
  [issue EXCEPT !.message = "[" \o sectionTitle \o "] " \o issue.message]

prefixScores(sectionTitle, scores) ==
  [k \in 1..Len(scores) |->
    [scores[k] EXCEPT !.issues = [j \in 1..Len(scores[k].issues) |->
                                    prefixIssue(sectionTitle, scores[k].issues[j])]]]

\* the merge without the division by the number of sections: totals, not means
aggregateRuleScoresTotals(allScores) ==
  LET rules == insertionOrder([k \in 1..Len(allScores) |-> allScores[k].rule])
      ofRule(rule) == Pick(allScores, {k \in 1..Len(allScores) : allScores[k].rule = rule})
      merged(rule) ==
        LET scores == ofRule(rule)
        IN RuleScore(rule, RoundDiv(SumSeq([k \in 1..Len(scores) |-> scores[k].max_points]), Len(scores)),
                     SumSeq([k \in 1..Len(scores) |-> scores[k].earned_points]),
                     issuesOf(scores))
  IN [k \in 1..Len(rules) |-> merged(rules[k])]

\* the merge with each rule's issues taken from the last section to the first
aggregateRuleScoresLastFirst(allScores) ==
  LET rules == insertionOrder([k \in 1..Len(allScores) |-> allScores[k].rule])
      ofRule(rule) == Pick(allScores, {k \in 1..Len(allScores) : allScores[k].rule = rule})
      merged(rule) ==
        LET scores == ofRule(rule)
            totalMax == SumSeq([k \in 1..Len(scores) |-> scores[k].max_points])
            totalEarned == SumSeq([k \in 1..Len(scores) |-> scores[k].earned_points])
        IN RuleScore(rule, RoundDiv(totalMax, Len(scores)), RoundDiv(totalEarned, Len(scores)),
                     issuesOf([k \in 1..Len(scores) |-> scores[Len(scores) + 1 - k]]))
  IN [k \in 1..Len(rules) |-> merged(rules[k])]

\* the keys of byRule, in insertion order, and the scores filed under each
aggregateRuleScores(allScores) ==
  LET rules == insertionOrder([k \in 1..Len(allScores) |-> allScores[k].rule])
      ofRule(rule) == Pick(allScores, {k \in 1..Len(allScores) : allScores[k].rule = rule})
      merged(rule) ==
        LET scores == ofRule(rule)
            totalMax == SumSeq([k \in 1..Len(scores) |-> scores[k].max_points])
            totalEarned == SumSeq([k \in 1..Len(scores) |-> scores[k].earned_points])
        IN RuleScore(rule, RoundDiv(totalMax, Len(scores)), RoundDiv(totalEarned, Len(scores)),
                     issuesOf(scores))
  IN [k \in 1..Len(rules) |-> merged(rules[k])]

\* reduce((best, s) => s.score > best.score ? s : best), and the same for worst
bestSectionOf(sectionScores) ==
  LET scan[k \in 1..Len(sectionScores)] ==
        IF k = 1 THEN sectionScores[1]
        ELSE LET best == scan[k - 1]
             IN IF sectionScores[k].score > best.score THEN sectionScores[k] ELSE best
  IN scan[Len(sectionScores)]

worstSectionOf(sectionScores) ==
  LET scan[k \in 1..Len(sectionScores)] ==
        IF k = 1 THEN sectionScores[1]
        ELSE LET worst == scan[k - 1]
             IN IF sectionScores[k].score < worst.score THEN sectionScores[k] ELSE worst
  IN scan[Len(sectionScores)]

generateSectionedSummary(overallScore, sectionCount, sectionScores) ==
  LET bestSection == bestSectionOf(sectionScores)
      worstSection == worstSectionOf(sectionScores)
  IN IF overallScore >= 90
     THEN "Excellent structured summary across " \o ToString(sectionCount)
            \o " sections. All sections follow evidence-based best practices."
     ELSE IF overallScore >= 80
     THEN "Good structured summary across " \o ToString(sectionCount) \o " sections. Best: \""
            \o bestSection.title \o "\" (" \o ToString(bestSection.score)
            \o "), needs work: \"" \o worstSection.title \o "\" ("
            \o ToString(worstSection.score) \o ")."
     ELSE "Structured summary with " \o ToString(sectionCount)
            \o " sections needs improvement. Focus on \"" \o worstSection.title
            \o "\" (score: " \o ToString(worstSection.score) \o ")."

\* the optional description and intro of a section, when truthy
sectionExtras(section) ==
  [f \in {g \in {"description", "intro"} : Truthy(Get(section, g))} |-> Get(section, f).v]

\* what one pass of the loop over sections pushes, once the validators have run
sectionEntry(section, sectionContext, prefixedScores, sectionScore) ==
  [prefixedScores |-> prefixedScores,
   sectionScore |->
     sectionExtras(section) @@
     [title |-> Get(section, "title").v,
      score |-> sectionScore,
      grade |-> calculateGrade(sectionScore),
      item_count |-> Len(Get(section, "items").v),
      issues |-> issuesOf(prefixedScores),
      context |-> sectionContext]]

\* the section score taken as the mean of the rules' own percentages
sectionValidatedPerRule(section, globalContext, scores) ==
  sectionEntry(section,
               IF Truthy(Get(section, "context")) THEN Get(section, "context").v
               ELSE globalContext,
               prefixScores(Get(section, "title").v, scores),
               RoundDiv(SumSeq([k \in 1..Len(scores) |->
                                 RoundDiv(scores[k].earned_points * 100, scores[k].max_points)]),
                        Len(scores)))

sectionValidated(section, globalContext, scores) ==
  sectionEntry(section,
               IF Truthy(Get(section, "context")) THEN Get(section, "context").v
               ELSE globalContext,
               prefixScores(Get(section, "title").v, scores),
               percentOf(totalEarnedOf(scores)))

\* one pass of the loop over sections
sectionPass(section, globalContext) ==
  sectionValidated(section, globalContext, runValidators(Get(section, "items").v))

\* Math.max(allMaxDepth, sectionMaxDepth) over the sections, from 1
RECURSIVE maxDepthOf(_)
maxDepthOf(depths) ==
  IF Len(depths) = 0 THEN 1
  ELSE Max(maxDepthOf(SubSeq(depths, 1, Len(depths) - 1)), depths[Len(depths)])

\* analyzeSections, last step: the BulletAnalysis object is built and returned
sectionedReport(cfg, header, sectionScores, overallScore, aggregatedScores, buckets, allSuggestions, itemCount, allMaxDepth, allLengths, contextAnalysis) ==
  [content |->
     withFeedback(
       header @@
       [overall_score |-> overallScore,
        grade |-> calculateGrade(overallScore),
        scores |-> scoresView(cfg, aggregatedScores),
        errors |-> buckets.errors,
        warnings |-> buckets.warnings,
        suggestions |-> allSuggestions,
        summary |-> generateSectionedSummary(overallScore, Len(sectionScores), sectionScores),
        top_improvements |->
          getTopImprovements(buckets.errors \o buckets.warnings \o allSuggestions, overallScore),
        item_count |-> itemCount,
        max_depth |-> allMaxDepth,
        avg_line_length |->
          IF Len(allLengths) > 0 THEN RoundDiv(SumSeq(allLengths), Len(allLengths)) ELSE 0,
        context_fit |-> contextAnalysis.fit,
        section_scores |-> sectionScores],
       contextAnalysis)]

\* the document score taken from the best section instead of the mean
sectionsScoredByBest(cfg, header, sectionsItems, sectionScores, allRuleScores, contextAnalysis) ==
  sectionedReport(cfg, header, sectionScores,
    bestSectionOf(sectionScores).score,
    aggregateRuleScores(allRuleScores),
    strictBuckets(cfg,
      Flatten([k \in 1..Len(sectionScores) |-> bySeverity(sectionScores[k].issues, "error")]),
      Flatten([k \in 1..Len(sectionScores) |-> bySeverity(sectionScores[k].issues, "warning")])),
    Flatten([k \in 1..Len(sectionScores) |-> bySeverity(sectionScores[k].issues, "suggestion")]),
    SumSeq([k \in 1..Len(sectionsItems) |-> Len(sectionsItems[k])]),
    maxDepthOf([k \in 1..Len(sectionsItems) |-> calculateMaxDepth(sectionsItems[k], 1)]),
    Flatten([k \in 1..Len(sectionsItems) |-> collectLengths(sectionsItems[k])]),
    contextAnalysis)

\* analyzeSections, after the loop: the issues by severity, the strict-mode step,
\* the average of the section scores and the rule scores merged by rule
sectionsScored(cfg, header, sectionsItems, sectionScores, allRuleScores, contextAnalysis) ==
  sectionedReport(cfg, header, sectionScores,
    RoundDiv(SumSeq([k \in 1..Len(sectionScores) |-> sectionScores[k].score]),
             Len(sectionScores)),
    aggregateRuleScores(allRuleScores),
    strictBuckets(cfg,
      Flatten([k \in 1..Len(sectionScores) |-> bySeverity(sectionScores[k].issues, "error")]),
      Flatten([k \in 1..Len(sectionScores) |-> bySeverity(sectionScores[k].issues, "warning")])),
    Flatten([k \in 1..Len(sectionScores) |-> bySeverity(sectionScores[k].issues, "suggestion")]),
    SumSeq([k \in 1..Len(sectionsItems) |-> Len(sectionsItems[k])]),
    maxDepthOf([k \in 1..Len(sectionsItems) |-> calculateMaxDepth(sectionsItems[k], 1)]),
    Flatten([k \in 1..Len(sectionsItems) |-> collectLengths(sectionsItems[k])]),
    contextAnalysis)

sectionsValidated(cfg, header, sectionsItems, passes, globalContext) ==
  sectionsScored(cfg, header, sectionsItems,
    [k \in 1..Len(passes) |-> passes[k].sectionScore],
    Flatten([k \in 1..Len(passes) |-> passes[k].prefixedScores]),
    analyzeContext(Flatten(sectionsItems), globalContext))

analyzeSections(cfg, sections, globalContext, title, description, intro) ==
  sectionsValidated(cfg, headerFields(title, description, intro),
    [k \in 1..Len(sections) |-> Get(sections[k], "items").v],
    [k \in 1..Len(sections) |-> sectionPass(sections[k], globalContext)],
    globalContext)

(***************************************************************************)
(* Input validation.                                                        *)
(***************************************************************************)
\* typeof item.text !== 'string' || item.text.trim().length === 0
textMissing(item) ==
  ~IsString(Get(item, "text")) \/ Len(trim(Get(item, "text").v)) = 0

\* the Error thrown by validateItemsArray, as <<message>>, or <<>> when it returns
validateItemsArray(items, location) ==
  LET notObject(i) == ~Truthy(items[i]) \/ ~IsObjectLike(items[i])
      bad == {i \in 1..Len(items) : notObject(i) \/ textMissing(items[i])}
      first == CHOOSE i \in bad : \A j \in bad : i <= j
  IN IF bad = {} THEN <<>>
     ELSE IF notObject(first)
     THEN <<"Item at index " \o ToString(first - 1) \o " in " \o location \o " must be an object">>
     ELSE <<"Item at index " \o ToString(first - 1) \o " in " \o location
              \o " must have non-empty text property">>

\* the Error thrown for section i (0-based index i - 1), or <<>>
validateSection(section, i) ==
  IF ~Truthy(section) \/ ~IsObjectLike(section)
  THEN <<"Section at index " \o ToString(i - 1) \o " must be an object">>
  ELSE IF ~IsString(Get(section, "title")) \/ Len(trim(Get(section, "title").v)) = 0
  THEN <<"Section at index " \o ToString(i - 1) \o " must have a non-empty title">>
  ELSE IF ~Truthy(Get(section, "items")) \/ ~IsArray(Get(section, "items"))
  THEN <<"Section \"" \o Get(section, "title").v \o "\" must have an items array">>
  ELSE IF Len(Get(section, "items").v) = 0
  THEN <<"Section \"" \o Get(section, "title").v \o "\" cannot have empty items array">>
  ELSE validateItemsArray(Get(section, "items").v,
                          "section \"" \o Get(section, "title").v \o "\"")

hasItems(obj) == Truthy(Get(obj, "items")) /\ IsArray(Get(obj, "items"))
hasSections(obj) == Truthy(Get(obj, "sections")) /\ IsArray(Get(obj, "sections"))

\* the Error thrown by validateInput, as <<message>>, or <<>> when it returns obj
validateInput(obj) ==
  IF ~Truthy(obj) \/ ~IsObjectLike(obj) THEN <<"Input must be an object">>
  ELSE IF ~hasItems(obj) /\ ~hasSections(obj)
  THEN <<"Must provide either \"items\" (flat mode) or \"sections\" (sectioned mode)">>
  ELSE IF hasItems(obj) /\ hasSections(obj)
  THEN <<"Cannot use both \"items\" and \"sections\" - choose one mode">>
  ELSE IF hasItems(obj)
  THEN IF Len(Get(obj, "items").v) = 0 THEN <<"Items array cannot be empty">>
       ELSE validateItemsArray(Get(obj, "items").v, "items")
  ELSE LET sections == Get(obj, "sections").v
           errs == [i \in 1..Len(sections) |-> validateSection(sections[i], i)]
           bad == {i \in 1..Len(sections) : errs[i] # <<>>}
       IN IF Len(sections) = 0 THEN <<"Sections array cannot be empty">>
          ELSE IF bad = {} THEN <<>>
          ELSE errs[CHOOSE i \in bad : \A j \in bad : i <= j]

\* validateInput of the single-mode server
validateInputSingle(obj) ==
  IF ~Truthy(obj) \/ ~IsObjectLike(obj) THEN <<"Input must be an object">>
  ELSE IF ~Truthy(Get(obj, "items")) \/ ~IsArray(Get(obj, "items"))
  THEN <<"Missing required field: items (array of bullet items)">>
  ELSE IF Len(Get(obj, "items").v) = 0 THEN <<"Items array cannot be empty">>
  ELSE LET items == Get(obj, "items").v
           notObject(i) == ~Truthy(items[i]) \/ ~IsObjectLike(items[i])
           bad == {i \in 1..Len(items) : notObject(i) \/ textMissing(items[i])}
           first == CHOOSE i \in bad : \A j \in bad : i <= j
       IN IF bad = {} THEN <<>>
          ELSE IF notObject(first)
          THEN <<"Item at index " \o ToString(first - 1) \o " must be an object">>
          ELSE <<"Item at index " \o ToString(first - 1) \o " must have non-empty text property">>

(***************************************************************************)
(* analyze: the entry point of each server.                                 *)
(***************************************************************************)
\* x.length > 0 for the values that have a length
lengthPositive(x) == x.t \in {"array", "string"} /\ Len(x.v) > 0

\* A TypeError is raised while the validators walk the tree: a visited node is
\* null or undefined (calculateMaxDepth reads item.children), its text is
\* (checkItem reads item.text.length), or its truthy children have no forEach.
RECURSIVE treeThrows(_)
treeThrows(items) ==
  \E k \in 1..Len(items) :
    \/ items[k].t \in {"null", "undefined"}
    \/ Get(items[k], "text").t \in {"null", "undefined"}
    \/ Truthy(Get(items[k], "children")) /\ ~IsArray(Get(items[k], "children"))
    \/ treeThrows(ChildrenOf(items[k]))

TypeErrorMessage == "Cannot read properties of undefined (reading 'length')"

HINT == "Provide \"items\" (flat mode) or \"sections\" (sectioned mode). Each item: {text: string, children?: [...], importance?: \"high\"|\"medium\"|\"low\"}"

HINT_SINGLE == "Provide items as an array of {text: string, children?: [...], importance?: \"high\"|\"medium\"|\"low\"} objects"

\* the catch block of analyze
errorResponse(message, hint) ==
  [content |-> [error |-> message, hint |-> hint], isError |-> TRUE]

\* bulletInput.context || 'document'
contextOf(obj) == IF Truthy(Get(obj, "context")) THEN Get(obj, "context").v ELSE "document"

\* some validator call made by the mode analyze selects raises a TypeError
analysisThrows(obj) ==
  LET sections == Get(obj, "sections")
  IN IF Truthy(sections) /\ lengthPositive(sections)
     THEN \/ ~IsArray(sections)
          \/ \E k \in 1..Len(sections.v) : treeThrows(Get(sections.v[k], "items").v)
     ELSE treeThrows(Get(obj, "items").v)

\* analyze of the single-mode server, last step: no header, no strict-mode step
singleReport(cfg, items, scores, overallScore, allIssues, contextAnalysis) ==
  [content |->
     withFeedback(
       [overall_score |-> overallScore,
        grade |-> calculateGrade(overallScore),
        scores |-> scoresView(cfg, scores),
        errors |-> bySeverity(allIssues, "error"),
        warnings |-> bySeverity(allIssues, "warning"),
        suggestions |-> bySeverity(allIssues, "suggestion"),
        summary |-> generateSummary(overallScore, Len(bySeverity(allIssues, "error")),
                                    Len(bySeverity(allIssues, "warning"))),
        top_improvements |-> getTopImprovementsSingle(allIssues),
        item_count |-> Len(items),
        max_depth |-> calculateMaxDepth(items, 1),
        avg_line_length |-> calculateAvgLineLength(items),
        context_fit |-> contextAnalysis.fit],
       contextAnalysis)]

singleValidated(cfg, items, scores, contextAnalysis) ==
  singleReport(cfg, items, scores, percentOf(totalEarnedOf(scores)), issuesOf(scores),
               contextAnalysis)

\* the result of analyze once validateInput has thrown (thrown # <<>>) or returned
analyzeAfter(cfg, obj, thrown) ==
  IF thrown # <<>> THEN errorResponse(thrown[1], HINT)
  ELSE IF analysisThrows(obj) THEN errorResponse(TypeErrorMessage, HINT)
  ELSE IF Truthy(Get(obj, "sections")) /\ lengthPositive(Get(obj, "sections"))
  THEN analyzeSections(cfg, Get(obj, "sections").v, contextOf(obj),
                       Get(obj, "title"), Get(obj, "description"), Get(obj, "intro"))
  ELSE analyzeFlat(cfg, Get(obj, "items").v, contextOf(obj),
                   Get(obj, "title"), Get(obj, "description"), Get(obj, "intro"))

analyze(cfg, obj) == analyzeAfter(cfg, obj, validateInput(obj))

analyzeSingleAfter(cfg, obj, thrown) ==
  IF thrown # <<>> THEN errorResponse(thrown[1], HINT_SINGLE)
  ELSE IF treeThrows(Get(obj, "items").v) THEN errorResponse(TypeErrorMessage, HINT_SINGLE)
  ELSE singleValidated(cfg, Get(obj, "items").v, runValidatorsSingle(Get(obj, "items").v),
                       analyzeContextSingle(Get(obj, "items").v, contextOf(obj)))

\* analyze of the single-mode server
analyzeSingle(cfg, obj) == analyzeSingleAfter(cfg, obj, validateInputSingle(obj))

(***************************************************************************)
(* config.ts                                                                *)
(***************************************************************************)
DEFAULT_CONFIG ==
  [validation |-> [strictMode |-> FALSE, enableResearchCitations |-> TRUE],
   display |-> [colorOutput |-> TRUE]]

\* loadConfig with the DEFAULT_CONFIG object left shared with the result: the
\* overrides are written into the module's defaults
loadConfigShared(defaults, env) ==
  LET isTrue(name) == name \in DOMAIN env /\ env[name] = "true"
      written ==
        [validation |->
           [strictMode |-> IF isTrue("BULLET_STRICT_MODE") THEN TRUE
                           ELSE defaults.validation.strictMode,
            enableResearchCitations |-> IF isTrue("BULLET_NO_CITATIONS") THEN FALSE
                                        ELSE defaults.validation.enableResearchCitations],
         display |->
           [colorOutput |-> IF isTrue("BULLET_NO_COLOR") THEN FALSE
                            ELSE defaults.display.colorOutput]]
  IN [config |-> written, DEFAULT_CONFIG |-> written]

\* loadConfig run on the module's DEFAULT_CONFIG object under process.env = env
\* (an unset variable is absent from env): the config returned, built from copies
\* of the defaults' two sections, and the DEFAULT_CONFIG object afterwards
loadConfigFrom(defaults, env) ==
  LET isTrue(name) == name \in DOMAIN env /\ env[name] = "true"
  IN [config |->
        [validation |->
           [strictMode |-> IF isTrue("BULLET_STRICT_MODE") THEN TRUE
                           ELSE defaults.validation.strictMode,
            enableResearchCitations |-> IF isTrue("BULLET_NO_CITATIONS") THEN FALSE
                                        ELSE defaults.validation.enableResearchCitations],
         display |->
           [colorOutput |-> IF isTrue("BULLET_NO_COLOR") THEN FALSE
                            ELSE defaults.display.colorOutput]],
      DEFAULT_CONFIG |-> defaults]

loadConfig(env) == loadConfigFrom(DEFAULT_CONFIG, env).config

(***************************************************************************)
(* Requests: the bounded sets the inputs are drawn from.                    *)
(***************************************************************************)
MaxFree == 3
MaxRun == 2
MaxSections == 2

Item(text) == Obj([text |-> Str(text)])
ItemImp(text, importance) == Obj([text |-> Str(text), importance |-> Str(importance)])
ItemKids(text, kids) == Obj([text |-> Str(text), children |-> Arr(kids)])

\* items of every shape: nesting to depths 2, 3 and 4, importance tags, an empty
\* children array, texts of every pattern and length class
ItemPool ==
  {Item("Use cats."),
   ItemImp("Use dogs.", "high"),
   Item("building the index takes time"),
   ItemKids(TextLong, <<Item("Use cats.")>>),
   ItemKids("The cache is warm:", <<ItemKids("Use dogs.", <<Item("Quarterly revenue")>>)>>),
   ItemKids("Servers are restarted nightly",
     <<ItemKids("Use cats.", <<ItemKids("Use dogs.", <<Item("String handling")>>)>>)>>),
   ItemImp("Quarterly revenue", "low"),
   Obj([text |-> Str(TextSlight), children |-> Arr(<<>>)]),
   Item("String handling")}

RECURSIVE SeqsUpTo(_, _)
SeqsUpTo(S, n) ==
  IF n = 0 THEN {<<>>}
  ELSE LET shorter == SeqsUpTo(S, n - 1)
       IN shorter \cup {Append(q, x) : q \in {r \in shorter : Len(r) = n - 1}, x \in S}

\* every list of 1..MaxFree pool items, in every order
FreeLists == SeqsUpTo(ItemPool, MaxFree) \ {<<>>}

\* long lists: each entry of RunPool repeated 0..MaxRun times, in the pool's order
RunPool ==
  <<Item(TextGood), ItemImp("Use dogs.", "high"), ItemImp(TextLong, "high"),
    Item("building the index takes time"), Item("The cache is warm:"),
    Item("Servers are restarted nightly")>>

Repeat(x, n) == [k \in 1..n |-> x]

RunLists ==
  {Flatten([k \in 1..Len(RunPool) |-> Repeat(RunPool[k], c[k])]) :
     c \in [1..Len(RunPool) -> 0..MaxRun]} \ {<<>>}

ContextValues == {Absent, Str("document"), Str("presentation"), Str("reference"), Str("email")}

FlatRequest(items, context) ==
  IF context = Absent THEN Obj([items |-> Arr(items)])
  ELSE Obj([items |-> Arr(items), context |-> context])

\* every list without a context; the one-item lists and the longest run list
\* under every context; the one-item lists under a title and an empty intro
\* lists for particular cases: a tag other than `high` in the middle of five
\* items, a `high` tag in the middle of three, the same opening words twice, and
\* the same opening words in another case and spacing, and two patterns tied
\* with the later one completing its count first, and a tree holding a text on
\* each side of every length threshold and an empty child text, and three
\* well-formed items of which one is nested four deep
ScenarioLists ==
  {<<Item(TextGood), Item(TextGood), ItemImp("Quarterly revenue", "low"), Item(TextGood),
     Item(TextGood)>>,
   <<Item(TextGood), Item("Use cats."), ItemImp("Use dogs.", "high")>>,
   <<Item("Use cats."), ItemImp("Use dogs.", "high"), Item(TextGood)>>,
   <<Item("Use cats."), Item("Use dogs."), Item("Use cats.")>>,
   <<Item("Use cats."), Item(" use   CATS. now"), Item("Use dogs.")>>,
   <<Item("Use cats."), Item("building the index takes time"),
     Item("building the index takes time"), Item("Use cats.")>>,
   <<ItemKids(Text39, <<Item(Text76), ItemKids(Text80, <<Item(Text81), Item("")>>)>>),
     Item(Text40), Item(Text75)>>,
   <<ItemKids(TextGood, <<ItemKids(TextGood, <<ItemKids(TextGood, <<Item(TextGood)>>)>>)>>),
     Item(Text40), Item(TextReview)>>}

FlatRequests ==
  {FlatRequest(l, Absent) : l \in FreeLists \cup RunLists \cup ScenarioLists}
    \cup {FlatRequest(l, c) :
            l \in {q \in FreeLists \cup RunLists : Len(q) = 1 \/ Len(q) = MaxRun * Len(RunPool)},
            c \in ContextValues}
    \cup {Obj([items |-> Arr(l), title |-> Str("Release notes"), intro |-> Str("")]) :
            l \in {q \in FreeLists : Len(q) = 1}}

OneItem == <<Item("Use cats.")>>

Section(title, items) == Obj([title |-> Str(title), items |-> Arr(items)])

\* one section holding a list that is also sent flat
SingleSectionRequests ==
  {Obj([sections |-> Arr(<<Section("Setup", l)>>)]) :
     l \in FreeLists \cup {q \in RunLists : Len(q) >= (MaxRun - 1) * Len(RunPool) + 4}}
    \cup {Obj([sections |-> Arr(<<Obj([title |-> Str("Usage notes"), items |-> Arr(l),
                                      context |-> Str("presentation")])>>)]) :
            l \in {q \in FreeLists : Len(q) = 1}}

SectionPool ==
  {Section("Setup", l) : l \in {q \in FreeLists : Len(q) = 1}}
    \cup {Obj([title |-> Str("Usage"), items |-> Arr(l), context |-> Str("presentation"),
               description |-> Str("How to call it")]) :
            l \in {q \in FreeLists : Len(q) = 1}}

MultiSectionRequests ==
  {Obj([sections |-> Arr(ss)]) : ss \in {q \in SeqsUpTo(SectionPool, MaxSections) : Len(q) >= 2}}
    \cup {Obj([sections |-> Arr(ss), context |-> Str("presentation")]) :
            ss \in {q \in SeqsUpTo({Section("Setup", OneItem)}, MaxSections) : Len(q) >= 2}}

\* sections whose items only together show three patterns, under no context and
\* under a section override, two flat sections of three items each for
\* reference use, and two sections whose points differ by an odd amount under
\* five rules
ScenarioSectionRequests ==
  {Obj([sections |-> Arr(<<Section("Setup", <<Item("Use cats."), Item("building the index takes time")>>),
                           Section("Usage", <<Item("The cache is warm:")>>)>>)]),
   Obj([sections |-> Arr(<<Section("Setup", <<Item("Use cats."), Item("building the index takes time")>>),
                           Obj([title |-> Str("Usage"), items |-> Arr(<<Item("The cache is warm:")>>),
                                context |-> Str("reference")])>>)]),
   Obj([sections |-> Arr(<<Section("Setup", <<Item("Use cats."), Item("Use dogs."), Item(TextGood)>>),
                           Section("Usage", <<Item("Use cats."), Item("Use dogs."), Item(TextGood)>>)>>),
        context |-> Str("reference")]),
   Obj([sections |-> Arr(<<Section("Setup", <<Item("Use cats."), Item("Use dogs."), Item(TextGood)>>),
                           Section("Usage", <<Item("Use cats."), ItemKids("Use dogs.", OneItem), Item(TextGood)>>)>>),
        context |-> Str("reference")]),
   Obj([sections |-> Arr(<<Section("Setup", <<Item(TextGood), Item(TextReview)>>),
                           Section("Usage",
                             <<ItemKids(TextGood, <<ItemKids(TextGood, <<ItemKids(TextGood, <<Item(Text39)>>)>>)>>),
                               Item(Text40), ItemImp(Text75, "high"), Item(TextReview)>>)>>)])}

\* requests that break the input contract somewhere
BlankItem == Obj([text |-> Str("   ")])
NoTextItem == Obj([importance |-> Str("high")])

MalformedRequests ==
  {Null, Str("Use cats."), Obj([context |-> Str("document")]),
   Obj([items |-> Arr(<<>>)]),
   Obj([sections |-> Arr(<<>>)]),
   Obj([items |-> Str("Use cats.")]),
   Obj([items |-> Arr(OneItem), sections |-> Arr(<<Section("Setup", OneItem)>>)]),
   Obj([items |-> Arr(<<>>), sections |-> Arr(<<Section("Setup", OneItem)>>)]),
   Obj([items |-> Str("Use cats."), sections |-> Arr(<<Section("Setup", OneItem)>>)]),
   Obj([items |-> Arr(OneItem), sections |-> Str("Setup")]),
   Obj([items |-> Arr(OneItem), sections |-> Num(2)]),
   Obj([items |-> Arr(OneItem), sections |-> Null]),
   Obj([items |-> Arr(<<Null>>)]),
   Obj([items |-> Arr(<<Str("Use cats.")>>)]),
   Obj([items |-> Arr(<<BlankItem>>)]),
   Obj([items |-> Arr(<<NoTextItem>>)]),
   Obj([items |-> Arr(<<Obj([text |-> Num(7)])>>)]),
   Obj([items |-> Arr(<<Item("Use cats."), BlankItem>>)]),
   Obj([items |-> Arr(<<ItemKids("Use cats.", <<BlankItem>>)>>)]),
   Obj([items |-> Arr(<<ItemKids("Use cats.", <<NoTextItem>>)>>)]),
   Obj([items |-> Arr(<<ItemKids("Use cats.", <<ItemKids("Use dogs.", <<NoTextItem>>)>>)>>)]),
   Obj([sections |-> Arr(<<Null>>)]),
   Obj([sections |-> Arr(<<Obj([items |-> Arr(OneItem)])>>)]),
   Obj([sections |-> Arr(<<Section("  ", OneItem)>>)]),
   Obj([sections |-> Arr(<<Obj([title |-> Str("Setup")])>>)]),
   Obj([sections |-> Arr(<<Section("Setup", <<>>)>>)]),
   Obj([sections |-> Arr(<<Section("Setup", OneItem), Section("Usage", <<BlankItem>>)>>)]),
   Obj([sections |-> Arr(<<Section("Setup", OneItem), Section("Usage", <<Item("Use dogs."), NoTextItem>>)>>)]),
   Obj([sections |-> Arr(<<Section("Setup", <<ItemKids("Use cats.", <<BlankItem>>)>>)>>)]),
   Obj([sections |-> Arr(<<Section("Setup", <<ItemKids("Use cats.", <<NoTextItem>>)>>)>>)])}

Requests ==
  FlatRequests \cup SingleSectionRequests \cup MultiSectionRequests \cup ScenarioSectionRequests
    \cup MalformedRequests

\* the single-mode server is sent the flat requests and the malformed ones
RequestsSingle == FlatRequests \cup MalformedRequests

\* the requests sent again and again when calls are compared
RepeatRequests ==
  {FlatRequest(l, Absent) : l \in {q \in FreeLists : Len(q) = 1}}
    \cup {Obj([sections |-> Arr(<<Section("Setup", l)>>)]) : l \in {q \in FreeLists : Len(q) = 1}}
    \cup {Obj([items |-> Arr(<<BlankItem>>)]), Obj([items |-> Arr(<<ItemKids("Use cats.", <<NoTextItem>>)>>)])}

\* the environments the process is started in
StartEnvs ==
  {<<>>, [BULLET_STRICT_MODE |-> "true"], [BULLET_NO_CITATIONS |-> "true"],
   [BULLET_STRICT_MODE |-> "true", BULLET_NO_CITATIONS |-> "true"]}

(***************************************************************************)
(* The state machine: a server is constructed with its configuration and    *)
(* then handles requests, one analyze call at a time.                       *)
(***************************************************************************)
NoRequest == [t |-> "no-request"]
NoResponse == [pending |-> TRUE]
NoCall == [none |-> TRUE]

Init ==
  /\ processEnv \in StartEnvs
  /\ defaultConfig = DEFAULT_CONFIG
  /\ config = loadConfigFrom(defaultConfig, processEnv).config
  /\ server \in {"sections-capable", "single-mode"}
  /\ input = NoRequest
  /\ response = NoResponse
  /\ prev = NoCall

\* a call that leaves strict mode switched on behind it
HandleWritingConfig(obj) ==
  /\ input' = obj
  /\ response' = IF server = "sections-capable" THEN analyze(config, obj)
                 ELSE analyzeSingle(config, obj)
  /\ config' = [config EXCEPT !.validation.strictMode = TRUE]
  /\ server' = server
  /\ UNCHANGED <<processEnv, defaultConfig>>

\* one call of BulletServer.analyze, run to completion: the configuration is read,
\* never written
Handle(obj) ==
  /\ input' = obj
  /\ response' = IF server = "sections-capable" THEN analyze(config, obj)
                 ELSE analyzeSingle(config, obj)
  /\ config' = config
  /\ server' = server
  /\ UNCHANGED <<processEnv, defaultConfig>>

Analyze ==
  /\ server = "sections-capable"
  /\ input = NoRequest
  /\ \E obj \in Requests : Handle(obj)
  /\ UNCHANGED prev

AnalyzeSingleMode ==
  /\ server = "single-mode"
  /\ input = NoRequest
  /\ \E obj \in RequestsSingle : Handle(obj)
  /\ UNCHANGED prev

Next == Analyze \/ AnalyzeSingleMode

Spec == Init /\ [][Next]_vars

\* the same server, with an earlier call of the sequence kept for comparison
AnalyzeAgain ==
  /\ \E obj \in RepeatRequests : Handle(obj)
  /\ prev' \in {prev} \cup (IF input = NoRequest THEN {}
                            ELSE {[input |-> input, response |-> response, config |-> config]})

NextAgain == AnalyzeAgain

SpecAgain == Init /\ [][NextAgain]_vars

\* config.ts on its own: loadConfig is called again and again while the
\* environment changes between the calls
EnvNames == {"BULLET_STRICT_MODE", "BULLET_NO_CITATIONS", "BULLET_NO_COLOR"}
EnvValues == {"true", "false", "1", "yes"}
Envs == UNION {[S -> EnvValues] : S \in SUBSET EnvNames}

InitConfig ==
  /\ processEnv = <<>>
  /\ defaultConfig = DEFAULT_CONFIG
  /\ config = loadConfigFrom(defaultConfig, processEnv).config
  /\ server = "sections-capable"
  /\ input = NoRequest
  /\ response = NoResponse
  /\ prev = NoCall

\* process.env is set and loadConfig called; the call before is remembered
LoadConfig ==
  /\ \E env \in Envs :
       /\ processEnv' = env
       /\ config' = loadConfigFrom(defaultConfig, env).config
       /\ defaultConfig' = loadConfigFrom(defaultConfig, env).DEFAULT_CONFIG
  /\ prev' = [env |-> processEnv, config |-> config]
  /\ UNCHANGED <<server, input, response>>

NextConfig == LoadConfig

SpecConfig == InitConfig /\ [][NextConfig]_vars

\* the two copies of validateStructure side by side on one list of patterns
MaxPatterns == 5
GrammarPatterns == {"verb-imperative", "verb-gerund", "noun-phrase", "sentence", "unknown"}
PatternLists == SeqsUpTo(GrammarPatterns, MaxPatterns)

InitStructure ==
  /\ processEnv = <<>>
  /\ defaultConfig = DEFAULT_CONFIG
  /\ config = loadConfigFrom(defaultConfig, processEnv).config
  /\ server = "sections-capable"
  /\ input \in {[patterns |-> patterns] : patterns \in PatternLists}
  /\ response = NoResponse
  /\ prev = NoCall

\* both copies score the list
ValidateStructure ==
  /\ response = NoResponse
  /\ response' = [guarded |-> structureOfPatterns(input.patterns),
                   unguarded |-> structureOfPatternsSingle(input.patterns)]
  /\ UNCHANGED <<config, server, input, prev, processEnv, defaultConfig>>

NextStructure == ValidateStructure

SpecStructure == InitStructure /\ [][NextStructure]_vars

(***************************************************************************)
(* Properties of the responses.                                             *)
(***************************************************************************)
Handled == input # NoRequest
Failed == Handled /\ "isError" \in DOMAIN response
Succeeded == Handled /\ "isError" \notin DOMAIN response

\* the mode the call handled ran in
SectionedCall ==
  /\ server = "sections-capable"
  /\ Truthy(Get(input, "sections")) /\ lengthPositive(Get(input, "sections"))
FlatCall == ~SectionedCall

\* the item lists the validators were run on: the flat list or each section's
ValidatedLists ==
  IF SectionedCall
  THEN {Get(Get(input, "sections").v[k], "items").v : k \in 1..Len(Get(input, "sections").v)}
  ELSE {Get(input, "items").v}

ValidatorsRun(items) ==
  IF server = "single-mode" THEN runValidatorsSingle(items) ELSE runValidators(items)

RuleMaxima ==
  <<[rule |-> "LIST_LENGTH", max |-> 20], [rule |-> "HIERARCHY", max |-> 15],
    [rule |-> "LINE_LENGTH", max |-> 15], [rule |-> "SERIAL_POSITION", max |-> 15],
    [rule |-> "STRUCTURE", max |-> 20], [rule |-> "FIRST_WORDS", max |-> 10],
    [rule |-> "FORMATTING", max |-> 5]>>

WithinBounds(scores) ==
  /\ Len(scores) = Len(RuleMaxima)
  /\ \A k \in 1..Len(scores) :
       /\ scores[k].rule = RuleMaxima[k].rule
       /\ scores[k].max_points = RuleMaxima[k].max
       /\ 0 <= scores[k].earned_points
       /\ scores[k].earned_points <= scores[k].max_points

\* C1: for every item list the validators were run on, a flat list or one
\* section's items, each of the seven RuleScores has 0 <= earned_points <=
\* max_points, and max_points is the rule's constant (20, 15, 15, 15, 20, 10, 5).
RuleScoresWithinBounds ==
  Succeeded => \A items \in ValidatedLists : \A scores \in {ValidatorsRun(items)} :
                 WithinBounds(scores)

\* a flat list whose STRUCTURE deductions (six deviating items, 4 points each)
\* exceed the rule's 20 points
StructureFloorReached ==
  /\ Succeeded /\ FlatCall
  /\ \E k \in 1..Len(response.content.scores) :
       /\ response.content.scores[k].rule = "STRUCTURE"
       /\ response.content.scores[k].earned_points = 0
       /\ Len(response.content.scores[k].issues) >= 6

\* C2: for every valid flat input the overall score is an integer in 0..100 and
\* the grade is A iff score >= 90, B iff 80 <= score < 90, C iff 70 <= score < 80,
\* D iff 60 <= score < 70, F iff score < 60.
FlatScoreAndGrade ==
  (Succeeded /\ FlatCall) =>
    \A score \in {response.content.overall_score} : \A grade \in {response.content.grade} :
      /\ score \in 0..100
      /\ grade = "A" <=> score >= 90
      /\ grade = "B" <=> (80 <= score /\ score < 90)
      /\ grade = "C" <=> (70 <= score /\ score < 80)
      /\ grade = "D" <=> (60 <= score /\ score < 70)
      /\ grade = "F" <=> score < 60

\* a flat report whose score sits on the threshold of its grade
GradeOnThreshold ==
  /\ Succeeded /\ FlatCall
  /\ response.content.overall_score = 80
  /\ response.content.grade = "B"

\* the response the same server gives the same request under configuration cfg
AnalyzedWith(cfg) ==
  IF server = "single-mode" THEN analyzeSingle(cfg, input) ELSE analyze(cfg, input)

Unsevered(issue) == [f \in DOMAIN issue \ {"severity"} |-> issue[f]]
IssueSet(issues) == {Unsevered(issues[k]) : k \in 1..Len(issues)}

\* C3: with strictMode on, the warnings list is empty and the errors list equals,
\* as a set of issues and ignoring the rewritten severity, the errors and the
\* warnings the same input gets with strictMode off; on the flat path, the
\* sectioned path and in the single-mode analyze.
StrictModePromotesWarnings ==
  (Succeeded /\ config.validation.strictMode) =>
    \A normal \in {AnalyzedWith([config EXCEPT !.validation.strictMode = FALSE]).content} :
      /\ response.content.warnings = <<>>
      /\ IssueSet(response.content.errors)
           = IssueSet(normal.errors) \cup IssueSet(normal.warnings)

\* C4: a sectioned input made of the single section (title, L) gets the overall
\* score, and so the grade, of the flat input with items L.
SingleSectionMatchesFlat ==
  (Succeeded /\ SectionedCall /\ Len(Get(input, "sections").v) = 1) =>
    \A flat \in {analyze(config,
                   Obj([items |-> Get(Get(input, "sections").v[1], "items")])).content} :
      /\ response.content.overall_score = flat.overall_score
      /\ response.content.grade = flat.grade

\* a single section of ten or more items, scored below the top grade
LongSingleSection ==
  /\ Succeeded /\ SectionedCall
  /\ Len(Get(input, "sections").v) = 1
  /\ response.content.item_count >= 10
  /\ response.content.overall_score < 90

Supplies(key) == Get(input, key).t \notin {"undefined", "null"}

ModeMessages ==
  {"Must provide either \"items\" (flat mode) or \"sections\" (sectioned mode)",
   "Cannot use both \"items\" and \"sections\" - choose one mode"}

RejectedForMode == Failed /\ response.content.error \in ModeMessages

\* C6: a request that supplies both `items` and `sections`, or neither, is
\* rejected by the mode check, before any validator runs, and the payload holds
\* only `error` and `hint`; a request supplying exactly one of them, as an array,
\* is not rejected by the mode check.
ModeSelectionExclusive ==
  (Handled /\ server = "sections-capable" /\ input.t = "object") =>
    /\ (Supplies("items") <=> Supplies("sections")) =>
         (RejectedForMode /\ DOMAIN response.content = {"error", "hint"})
    /\ (Supplies("items") /\ ~Supplies("sections") /\ IsArray(Get(input, "items"))) =>
         ~RejectedForMode
    /\ (Supplies("sections") /\ ~Supplies("items") /\ IsArray(Get(input, "sections"))) =>
         ~RejectedForMode

\* validateInput returned for the request handled
Accepted ==
  /\ Handled
  /\ (IF server = "single-mode" THEN validateInputSingle(input) ELSE validateInput(input)) = <<>>

\* the item lists of an accepted request
AcceptedLists ==
  IF server = "sections-capable" /\ hasSections(input)
  THEN {Get(Get(input, "sections").v[k], "items").v : k \in 1..Len(Get(input, "sections").v)}
  ELSE {Get(input, "items").v}

RECURSIVE EveryItemHasText(_)
EveryItemHasText(items) ==
  \A k \in 1..Len(items) :
    /\ IsString(Get(items[k], "text"))
    /\ Len(trim(Get(items[k], "text").v)) > 0
    /\ IsArray(Get(items[k], "children")) => EveryItemHasText(Get(items[k], "children").v)

\* C7: validation accepts a request only if every BulletItem in it, top-level,
\* in a section or nested as a child at any depth, has a string text that is
\* non-empty after trimming.
ValidationRequiresTextEverywhere ==
  Accepted => \A items \in AcceptedLists : EveryItemHasText(items)

\* C8: the error flag is set if and only if validateInput rejected the request;
\* an accepted request gets a full report.
TotalAfterValidation ==
  Handled =>
    /\ Failed <=> ~Accepted
    /\ Accepted => {"overall_score", "grade", "scores"} \subseteq DOMAIN response.content

\* every issue a report carries, wherever it is
ReportIssues(report) ==
  issuesOf(report.scores) \o report.errors \o report.warnings \o report.suggestions
    \o (IF "section_scores" \in DOMAIN report
        THEN Flatten([k \in 1..Len(report.section_scores) |-> report.section_scores[k].issues])
        ELSE <<>>)

Uncited(issues) == [k \in 1..Len(issues) |-> stripCitation(issues[k])]

\* a report with the citation taken off every issue
UncitedReport(report) ==
  [f \in DOMAIN report |->
    CASE f = "scores" ->
           [k \in 1..Len(report.scores) |->
             [report.scores[k] EXCEPT !.issues = Uncited(report.scores[k].issues)]]
      [] f \in {"errors", "warnings", "suggestions"} -> Uncited(report[f])
      [] f = "section_scores" ->
           [k \in 1..Len(report.section_scores) |->
             [report.section_scores[k] EXCEPT
                !.issues = Uncited(report.section_scores[k].issues)]]
      [] OTHER -> report[f]]

\* C9: with research citations disabled no issue of the report, in scores,
\* errors, warnings, suggestions or section_scores, carries research_basis; with
\* citations enabled every issue keeps it; the rest of the report is the same
\* under both settings.
CitationsFollowSetting ==
  Succeeded =>
    \A issues \in {ReportIssues(response.content)} :
      /\ \A k \in 1..Len(issues) :
           "research_basis" \in DOMAIN issues[k] <=> config.validation.enableResearchCitations
      /\ UncitedReport(response.content)
           = UncitedReport(
               AnalyzedWith([config EXCEPT !.validation.enableResearchCitations = TRUE]).content)

\* the suggestions the response lists as top improvements
TopList ==
  IF server = "single-mode" THEN response.content.top_improvements
  ELSE response.content.top_improvements.items

\* the issues getTopImprovements was given: the validators' issues on the flat
\* path, the three severity lists on the sectioned path
SourceIssues ==
  IF SectionedCall
  THEN response.content.errors \o response.content.warnings \o response.content.suggestions
  ELSE issuesOf(response.content.scores)

SeverityRank(issue) ==
  CASE issue.severity = "error" -> 0
    [] issue.severity = "warning" -> 1
    [] issue.severity = "suggestion" -> 2

\* issue j comes before issue k once the issues are ordered by rank, stably
ComesBefore(issues, j, k) ==
  \/ SeverityRank(issues[j]) < SeverityRank(issues[k])
  \/ SeverityRank(issues[j]) = SeverityRank(issues[k]) /\ j < k

\* the first carrier of each suggestion text, in that order
FirstCarriers(issues) ==
  {k \in 1..Len(issues) :
     /\ hasSuggestion(issues[k])
     /\ ~\E j \in 1..Len(issues) :
          /\ hasSuggestion(issues[j])
          /\ issues[j].suggestion = issues[k].suggestion
          /\ ComesBefore(issues, j, k)}

ExpectedTop(issues) ==
  LET firsts == FirstCarriers(issues)
      place(k) == Cardinality({j \in firsts : ComesBefore(issues, j, k)}) + 1
      count == IF Cardinality(firsts) < 3 THEN Cardinality(firsts) ELSE 3
  IN [p \in 1..count |-> issues[CHOOSE k \in firsts : place(k) = p].suggestion]

\* the highest severity (lowest rank) among the issues carrying a suggestion text
BestRank(issues, text) ==
  CHOOSE r \in 0..2 :
    /\ \E k \in 1..Len(issues) :
         hasSuggestion(issues[k]) /\ issues[k].suggestion = text /\ SeverityRank(issues[k]) = r
    /\ \A k \in 1..Len(issues) :
         (hasSuggestion(issues[k]) /\ issues[k].suggestion = text) => SeverityRank(issues[k]) >= r

\* C10: the top improvements are the suggestions of the issues that carry one,
\* ordered by severity rank (stably), without later repeats of a text, cut to the
\* first 3: at most 3 entries, no two equal, each the suggestion of some issue,
\* and none of a lower severity ahead of a distinct one of a higher severity.
TopImprovementsSelected ==
  Succeeded =>
    \A top \in {TopList} : \A issues \in {SourceIssues} :
      /\ top = ExpectedTop(issues)
      /\ Len(top) <= 3
      /\ \A i, j \in 1..Len(top) : i # j => top[i] # top[j]
      /\ \A i \in 1..Len(top) :
           \E k \in 1..Len(issues) : hasSuggestion(issues[k]) /\ issues[k].suggestion = top[i]
      /\ \A i, j \in 1..Len(top) :
           i < j => BestRank(issues, top[i]) <= BestRank(issues, top[j])

\* three improvements were picked from issues that were not in severity order
\* and repeated a suggestion text
TopThreeReordered ==
  /\ Succeeded
  /\ Len(TopList) = 3
  /\ \E j, k \in 1..Len(SourceIssues) :
       j < k /\ SeverityRank(SourceIssues[j]) > SeverityRank(SourceIssues[k])
  /\ \E j, k \in 1..Len(SourceIssues) :
       /\ j < k
       /\ hasSuggestion(SourceIssues[j]) /\ hasSuggestion(SourceIssues[k])
       /\ SourceIssues[j].suggestion = SourceIssues[k].suggestion

\* the grade the threshold table gives a score
OnThresholdTable(score, grade) ==
  /\ grade = "A" <=> score >= 90
  /\ grade = "B" <=> (80 <= score /\ score < 90)
  /\ grade = "C" <=> (70 <= score /\ score < 80)
  /\ grade = "D" <=> (60 <= score /\ score < 70)
  /\ grade = "F" <=> score < 60

\* n is num / den rounded to the nearest integer, halves up
IsRounded(n, num, den) == 2 * n * den - den <= 2 * num /\ 2 * num < 2 * n * den + den

SectionItems(k) == Get(Get(input, "sections").v[k], "items").v

\* C11: in sectioned mode each section's score is the rounded percentage of the
\* section's seven earned_points over the total of 100, the overall score is the
\* rounded mean of the section scores, section grades and the document grade
\* follow the threshold table, and the overall score lies in 0..100 between the
\* lowest and the highest section score.
SectionedScoreIsMean ==
  (Succeeded /\ SectionedCall) =>
    \A report \in {response.content} :
      /\ Len(report.section_scores) = Len(Get(input, "sections").v)
      /\ \A k \in 1..Len(report.section_scores) :
           /\ IsRounded(report.section_scores[k].score,
                        100 * totalEarnedOf(ValidatorsRun(SectionItems(k))), 100)
           /\ OnThresholdTable(report.section_scores[k].score, report.section_scores[k].grade)
      /\ IsRounded(report.overall_score,
                   SumSeq([k \in 1..Len(report.section_scores) |-> report.section_scores[k].score]),
                   Len(report.section_scores))
      /\ OnThresholdTable(report.overall_score, report.grade)
      /\ report.overall_score \in 0..100
      /\ \E k \in 1..Len(report.section_scores) :
           report.section_scores[k].score <= report.overall_score
      /\ \E k \in 1..Len(report.section_scores) :
           report.section_scores[k].score >= report.overall_score

\* two sections whose scores differ by an odd amount, so that the mean is rounded
MeanOfTwoRounded ==
  /\ Succeeded /\ SectionedCall
  /\ Len(response.content.section_scores) = 2
  /\ (response.content.section_scores[1].score + response.content.section_scores[2].score) % 2 = 1
  /\ response.content.section_scores[1].grade # response.content.section_scores[2].grade

\* the RuleScore the report of a flat call holds for a rule
ScoreOf(rule) ==
  CHOOSE s \in {response.content.scores[k] : k \in 1..Len(response.content.scores)} :
    s.rule = rule

FlatItems == Get(input, "items").v

\* no item of the list has children
NoNesting(items) == \A k \in 1..Len(items) : ChildrenOf(items[k]) = <<>>

\* a flat call on a list of n items without nesting that returned a report
FlatListOf(n) == Succeeded /\ FlatCall /\ Len(FlatItems) = n /\ NoNesting(FlatItems)

\* C12 as stated: a flat list of 10 items gets the "exceeds recommended maximum
\* of 7" warning and 10 of LIST_LENGTH's 20 points.
TenItemsWarned ==
  FlatListOf(10) =>
    /\ ScoreOf("LIST_LENGTH").max_points = 20
    /\ ScoreOf("LIST_LENGTH").earned_points = 10
    /\ Len(ScoreOf("LIST_LENGTH").issues) = 1
    /\ ScoreOf("LIST_LENGTH").issues[1].severity = "warning"
    /\ ScoreOf("LIST_LENGTH").issues[1].message
         = "List has 10 items, exceeds recommended maximum of 7"

\* C12: a flat list of 10 items is over the hard maximum of 9: LIST_LENGTH
\* reports one error, "exceeds maximum of 9", and earns 0 of its 20 points; the
\* "exceeds recommended maximum of 7" warning with 10 points is what a list of 9
\* items gets.
TenItemsOverHardMax ==
  /\ FlatListOf(10) =>
       /\ ScoreOf("LIST_LENGTH").max_points = 20
       /\ ScoreOf("LIST_LENGTH").earned_points = 0
       /\ Len(ScoreOf("LIST_LENGTH").issues) = 1
       /\ ScoreOf("LIST_LENGTH").issues[1].severity = "error"
       /\ ScoreOf("LIST_LENGTH").issues[1].message = "List has 10 items, exceeds maximum of 9"
  /\ FlatListOf(9) =>
       /\ ScoreOf("LIST_LENGTH").earned_points = 10
       /\ Len(ScoreOf("LIST_LENGTH").issues) = 1
       /\ ScoreOf("LIST_LENGTH").issues[1].severity = "warning"
       /\ ScoreOf("LIST_LENGTH").issues[1].message
            = "List has 9 items, exceeds recommended maximum of 7"

\* a flat list of 10 items has been analysed and its error listed
TenItemsAnalysed ==
  /\ FlatListOf(10)
  /\ \E k \in 1..Len(response.content.errors) :
       response.content.errors[k].rule = "LIST_LENGTH"

\* the number of levels of a list: 1 for a flat list, one more than the deepest
\* children list otherwise; an empty or absent children array adds no level
RECURSIVE NestingDepth(_)
NestingDepth(items) ==
  IF Len(items) = 0 THEN 0
  ELSE LET below == {NestingDepth(ChildrenOf(items[k])) : k \in 1..Len(items)}
       IN 1 + CHOOSE d \in below : \A e \in below : e <= d

\* C13: with d the maximum nesting depth of the list, d > 3 gives HIERARCHY 0
\* points and exactly one error, d = 3 gives 7 points and exactly one warning,
\* d <= 2 gives 15 points and no issue.
HierarchyByDepth ==
  (Succeeded /\ FlatCall) =>
    \A d \in {NestingDepth(FlatItems)} : \A score \in {ScoreOf("HIERARCHY")} :
      /\ score.max_points = 15
      /\ d > 3 => /\ score.earned_points = 0
                  /\ Len(score.issues) = 1
                  /\ score.issues[1].severity = "error"
      /\ d = 3 => /\ score.earned_points = 7
                  /\ Len(score.issues) = 1
                  /\ score.issues[1].severity = "warning"
      /\ d <= 2 => /\ score.earned_points = 15
                   /\ score.issues = <<>>

\* one item nested 4 levels deep: 0 points and one error
OneItemFourDeep ==
  /\ Succeeded /\ FlatCall
  /\ Len(FlatItems) = 1
  /\ NestingDepth(FlatItems) = 4
  /\ ScoreOf("HIERARCHY").earned_points = 0
  /\ Len(ScoreOf("HIERARCHY").issues) = 1
  /\ ScoreOf("HIERARCHY").issues[1].severity = "error"

\* the 0-based indices of the top-level items tagged `high` that lie past the
\* first two positions and before the last
HighInValley(items) ==
  {i \in 0..(Len(items) - 1) :
     /\ Get(items[i + 1], "importance") = Str("high")
     /\ 2 <= i /\ i < Len(items) - 1}

SomeTagged(items) == \E k \in 1..Len(items) : Truthy(Get(items[k], "importance"))
SomeHigh(items) == \E k \in 1..Len(items) : Get(items[k], "importance") = Str("high")

FlooredAtZero(n) == IF n < 0 THEN 0 ELSE n

\* C14: for n top-level items, when n > 3 and some item is tagged high, each
\* high item at 0-based index i with 2 <= i < n-1 yields one warning with
\* item_index i and earned_points = max(0, 15 - 5k) for k such items; when no
\* item carries an importance tag and n > 4 there is exactly one suggestion and
\* 15 points; in every other case there is no issue and 15 points.
SerialPositionByZones ==
  (Succeeded /\ FlatCall) =>
    \A n \in {Len(FlatItems)} : \A score \in {ScoreOf("SERIAL_POSITION")} :
      \A valley \in {HighInValley(FlatItems)} :
        /\ score.max_points = 15
        /\ (n > 3 /\ SomeHigh(FlatItems)) =>
             /\ Len(score.issues) = Cardinality(valley)
             /\ \A j \in 1..Len(score.issues) : score.issues[j].severity = "warning"
             /\ {score.issues[j].item_index : j \in 1..Len(score.issues)} = valley
             /\ score.earned_points = FlooredAtZero(15 - 5 * Cardinality(valley))
        /\ (~SomeTagged(FlatItems) /\ n > 4) =>
             /\ Len(score.issues) = 1
             /\ score.issues[1].severity = "suggestion"
             /\ score.earned_points = 15
        /\ (~(n > 3 /\ SomeHigh(FlatItems)) /\ ~(~SomeTagged(FlatItems) /\ n > 4)) =>
             /\ score.issues = <<>>
             /\ score.earned_points = 15

\* five items with the one high item at index 2: one warning, 10 points
HighItemInValley ==
  /\ Succeeded /\ FlatCall
  /\ Len(FlatItems) = 5
  /\ HighInValley(FlatItems) = {2}
  /\ ScoreOf("SERIAL_POSITION").earned_points = 10
  /\ ScoreOf("SERIAL_POSITION").issues[1].item_index = 2

\* the sets of positions (from 1) of the top-level items holding the same key,
\* for the keys held by two or more items
DuplicateGroups(items) ==
  {g \in {{o \in 1..Len(items) : firstWordsOf(Text(items[o])) = firstWordsOf(Text(items[k]))} :
            k \in 1..Len(items)} : Cardinality(g) >= 2}

\* C15: every first-two-words key shared by two or more top-level items yields
\* exactly one warning and deducts 3, so FIRST_WORDS earns max(0, 10 - 3g) for g
\* duplicate groups and keys held by one item yield nothing; for "Use cats.",
\* "Use dogs.", "Use cats." the one group is items 1 and 3 and 7 points are earned.
FirstWordsByGroup ==
  (Succeeded /\ FlatCall) =>
    \A score \in {ScoreOf("FIRST_WORDS")} : \A groups \in {DuplicateGroups(FlatItems)} :
      /\ score.max_points = 10
      /\ Len(score.issues) = Cardinality(groups)
      /\ \A j \in 1..Len(score.issues) : score.issues[j].severity = "warning"
      /\ score.earned_points = FlooredAtZero(10 - 3 * Cardinality(groups))
      /\ [k \in 1..Len(FlatItems) |-> Text(FlatItems[k])] = <<"Use cats.", "Use dogs.", "Use cats.">>
           => /\ score.earned_points = 7
              /\ score.issues[1].message = "Items 1, 3 start with similar words \"use cats.\""

\* "Use cats.", "Use dogs.", "Use cats." analysed: one warning, 7 points
UseCatsTwice ==
  /\ Succeeded /\ FlatCall
  /\ FlatItems = <<Item("Use cats."), Item("Use dogs."), Item("Use cats.")>>
  /\ Len(ScoreOf("FIRST_WORDS").issues) = 1
  /\ ScoreOf("FIRST_WORDS").earned_points = 7

PresentationDeclared == Get(input, "context") = Str("presentation")

\* C16: whenever the declared context is `presentation`, every report, for a
\* flat list or for sections, has context_fit `poor` and the same non-empty
\* context_feedback, whatever the items are.
PresentationAlwaysPoor ==
  (Succeeded /\ PresentationDeclared) =>
    /\ response.content.context_fit = "poor"
    /\ "context_feedback" \in DOMAIN response.content
    /\ response.content.context_feedback # ""
    /\ response.content.context_feedback
         = "3M research shows presentations are 43% more persuasive with visuals instead of bullets. Consider using graphics with narration."

\* sections analysed under a declared presentation context
PresentationSections ==
  /\ Succeeded /\ SectionedCall /\ PresentationDeclared
  /\ Len(response.content.section_scores) >= 2
  /\ response.content.context_fit = "poor"

EnvIsTrue(name) == name \in DOMAIN processEnv /\ processEnv[name] = "true"

\* C17: after any sequence of loadConfig calls, strictMode is true iff
\* BULLET_STRICT_MODE is exactly "true", enableResearchCitations is false iff
\* BULLET_NO_CITATIONS is exactly "true", colorOutput is false iff
\* BULLET_NO_COLOR is exactly "true": each flag follows its own variable of the
\* current environment only, no variable set gives the defaults (false, true,
\* true), and DEFAULT_CONFIG keeps its values.
LoadConfigReadsEnvExactly ==
  /\ config.validation.strictMode <=> EnvIsTrue("BULLET_STRICT_MODE")
  /\ config.validation.enableResearchCitations <=> ~EnvIsTrue("BULLET_NO_CITATIONS")
  /\ config.display.colorOutput <=> ~EnvIsTrue("BULLET_NO_COLOR")
  /\ processEnv = <<>> =>
       config = [validation |-> [strictMode |-> FALSE, enableResearchCitations |-> TRUE],
                 display |-> [colorOutput |-> TRUE]]
  /\ defaultConfig = [validation |-> [strictMode |-> FALSE, enableResearchCitations |-> TRUE],
                      display |-> [colorOutput |-> TRUE]]

\* a load under BULLET_STRICT_MODE = "yes" alone, right after a load with all
\* three variables "true", gives the defaults
LoadedAfterOverrides ==
  /\ prev # NoCall
  /\ prev.env = [n \in EnvNames |-> "true"]
  /\ prev.config.validation.strictMode /\ ~prev.config.display.colorOutput
  /\ processEnv = [n \in {"BULLET_STRICT_MODE"} |-> "yes"]
  /\ ~config.validation.strictMode /\ config.display.colorOutput

\* C18: for n top-level items, children not counted, LIST_LENGTH gives 0 points
\* and exactly one error when n > 9, 10 points and exactly one warning when
\* 8 <= n <= 9, 15 points and exactly one suggestion when n < 3, and 20 points
\* and no issue when 3 <= n <= 7; never more than one issue.
ListLengthByCount ==
  (Succeeded /\ FlatCall) =>
    \A n \in {Len(FlatItems)} : \A score \in {ScoreOf("LIST_LENGTH")} :
      /\ score.max_points = 20
      /\ Len(score.issues) <= 1
      /\ n > 9 => /\ score.earned_points = 0
                  /\ Len(score.issues) = 1 /\ score.issues[1].severity = "error"
      /\ (8 <= n /\ n <= 9) => /\ score.earned_points = 10
                               /\ Len(score.issues) = 1
                               /\ score.issues[1].severity = "warning"
      /\ n < 3 => /\ score.earned_points = 15
                  /\ Len(score.issues) = 1 /\ score.issues[1].severity = "suggestion"
      /\ (3 <= n /\ n <= 7) => /\ score.earned_points = 20
                               /\ score.issues = <<>>

\* two top-level items with children below them: still counted as two
TwoItemsWithChildren ==
  /\ Succeeded /\ FlatCall
  /\ Len(FlatItems) = 2
  /\ Len(collectLengths(FlatItems)) >= 5
  /\ ScoreOf("LIST_LENGTH").earned_points = 15
  /\ ScoreOf("LIST_LENGTH").issues[1].severity = "suggestion"

\* the classifications of the top-level items, by the server handling the call
PatternsOfCall ==
  [k \in 1..Len(FlatItems) |->
    IF server = "single-mode" THEN patternOfSingle(Text(FlatItems[k]))
    ELSE patternOf(Text(FlatItems[k]))]

Occurrences(arr, x) == Cardinality({k \in 1..Len(arr) : arr[k] = x})

\* the values no other value of the list occurs more often than
MostFrequent(arr) ==
  {arr[k] : k \in {j \in 1..Len(arr) :
                     \A o \in 1..Len(arr) : Occurrences(arr, arr[o]) <= Occurrences(arr, arr[j])}}

\* the 0-based indices of the items off a dominant pattern, none when it is `unknown`
OffPattern(patterns, dominant) ==
  {i \in 0..(Len(patterns) - 1) :
     /\ patterns[i + 1] # "unknown"
     /\ patterns[i + 1] # dominant
     /\ dominant # "unknown"}

\* C19: for a list of at least 2 items, with dominant a most frequent
\* classification of the top-level items, STRUCTURE emits one warning with
\* item_index i and deducts 4 for exactly the items i whose pattern is not
\* `unknown` and differs from dominant, dominant not being `unknown`, and earns
\* max(0, 20 - 4k) for k such items; an `unknown` dominant penalises no item,
\* and a list of fewer than 2 items gets 20 points and no issue.
StructureByDominant ==
  (Succeeded /\ FlatCall) =>
    \A score \in {ScoreOf("STRUCTURE")} : \A patterns \in {PatternsOfCall} :
      /\ score.max_points = 20
      /\ Len(FlatItems) < 2 => (score.earned_points = 20 /\ score.issues = <<>>)
      /\ Len(FlatItems) >= 2 =>
           \E dominant \in MostFrequent(patterns) :
             /\ Len(score.issues) = Cardinality(OffPattern(patterns, dominant))
             /\ {score.issues[j].item_index : j \in 1..Len(score.issues)}
                  = OffPattern(patterns, dominant)
             /\ \A j \in 1..Len(score.issues) : score.issues[j].severity = "warning"
             /\ score.earned_points
                  = FlooredAtZero(20 - 4 * Cardinality(OffPattern(patterns, dominant)))

\* `unknown` is the one most frequent pattern and another pattern is present:
\* nothing is deducted
UnknownDominates ==
  /\ Succeeded /\ FlatCall
  /\ Len(FlatItems) = 3
  /\ MostFrequent(PatternsOfCall) = {"unknown"}
  /\ \E k \in 1..3 : PatternsOfCall[k] # "unknown"
  /\ ScoreOf("STRUCTURE").earned_points = 20
  /\ ScoreOf("STRUCTURE").issues = <<>>

\* the position in arr of the n-th occurrence of x
PositionOfNth(arr, x, n) ==
  CHOOSE p \in 1..Len(arr) :
    arr[p] = x /\ Cardinality({k \in 1..p : arr[k] = x}) = n

\* among the most frequent values, the one that occurs first in the list
EarliestMostFrequent(arr) ==
  CHOOSE x \in MostFrequent(arr) :
    \A y \in MostFrequent(arr) : PositionOfNth(arr, x, 1) <= PositionOfNth(arr, y, 1)

\* among the most frequent values, the one whose running count reaches the
\* highest frequency first in a left-to-right pass over the list
FirstToReachMax(arr) ==
  CHOOSE x \in MostFrequent(arr) :
    \A y \in MostFrequent(arr) :
      PositionOfNth(arr, x, Occurrences(arr, x)) <= PositionOfNth(arr, y, Occurrences(arr, y))

\* the dominant values the call's server computes for STRUCTURE and FORMATTING
DominantOf(arr) == IF server = "single-mode" THEN getMostCommonSingle(arr) ELSE getMostCommon(arr)
EndingsOfCall == [k \in 1..Len(FlatItems) |-> endOf(Text(FlatItems[k]))]
CapitalizationsOfCall == [k \in 1..Len(FlatItems) |-> capOf(Text(FlatItems[k]))]

StructureFlagged ==
  {ScoreOf("STRUCTURE").issues[j].item_index : j \in 1..Len(ScoreOf("STRUCTURE").issues)}

\* C20 as stated: the dominant value is a most frequent one and, on a tie, the
\* first value to reach the highest count in a left-to-right pass over the list.
DominantReachesMaxFirst ==
  (Succeeded /\ FlatCall /\ Len(FlatItems) >= 2) =>
    /\ DominantOf(PatternsOfCall) = FirstToReachMax(PatternsOfCall)
    /\ DominantOf(EndingsOfCall) = FirstToReachMax(EndingsOfCall)
    /\ DominantOf(CapitalizationsOfCall) = FirstToReachMax(CapitalizationsOfCall)
    /\ StructureFlagged = OffPattern(PatternsOfCall, FirstToReachMax(PatternsOfCall))

\* C20: the dominant value is a most frequent one and, on a tie, the tied value
\* that occurs first in the list (the first key of the count map holding the
\* highest count).
DominantOccursFirst ==
  (Succeeded /\ FlatCall /\ Len(FlatItems) >= 2) =>
    /\ DominantOf(PatternsOfCall) \in MostFrequent(PatternsOfCall)
    /\ DominantOf(PatternsOfCall) = EarliestMostFrequent(PatternsOfCall)
    /\ DominantOf(EndingsOfCall) = EarliestMostFrequent(EndingsOfCall)
    /\ DominantOf(CapitalizationsOfCall) = EarliestMostFrequent(CapitalizationsOfCall)
    /\ StructureFlagged = OffPattern(PatternsOfCall, EarliestMostFrequent(PatternsOfCall))

\* two patterns tied at two items each, the second completing its count first:
\* the first one is dominant and the items of the second are flagged
TieGoesToEarliest ==
  /\ Succeeded /\ FlatCall
  /\ PatternsOfCall = <<"verb-imperative", "verb-gerund", "verb-gerund", "verb-imperative">>
  /\ StructureFlagged = {1, 2}
  /\ ScoreOf("STRUCTURE").earned_points = 12

\* the FORMATTING issues about endings, and those about capitalization
EndingIssues ==
  {j \in 1..Len(ScoreOf("FORMATTING").issues) :
     ScoreOf("FORMATTING").issues[j].suggestion
       \in {"Add periods to all items for consistency",
            "Remove periods from all items for consistency"}}

CapitalizationIssues ==
  {j \in 1..Len(ScoreOf("FORMATTING").issues) :
     ScoreOf("FORMATTING").issues[j].suggestion
       \in {"Capitalize the first letter of all items",
            "Use lowercase for the first letter of all items"}}

\* some item's class differs from the dominant class: the classes are not all one
ClassesDiffer(classes) == Cardinality({classes[k] : k \in 1..Len(classes)}) > 1

\* C21: for a list of at least 2 items FORMATTING emits one suggestion and
\* deducts 2 iff some item's ending class differs from the dominant one, and
\* independently one suggestion and 2 points iff some item's capitalisation class
\* differs from its dominant one; nothing else is deducted, so 5, 3 or 1 points
\* are earned with at most 2 issues; fewer than 2 items give 5 and no issue.
FormattingTwoChecks ==
  (Succeeded /\ FlatCall) =>
    \A score \in {ScoreOf("FORMATTING")} :
      /\ score.max_points = 5
      /\ Len(FlatItems) < 2 => (score.earned_points = 5 /\ score.issues = <<>>)
      /\ Len(FlatItems) >= 2 =>
           /\ Cardinality(EndingIssues) = (IF ClassesDiffer(EndingsOfCall) THEN 1 ELSE 0)
           /\ Cardinality(CapitalizationIssues)
                = (IF ClassesDiffer(CapitalizationsOfCall) THEN 1 ELSE 0)
           /\ Len(score.issues) = Cardinality(EndingIssues) + Cardinality(CapitalizationIssues)
           /\ \A j \in 1..Len(score.issues) : score.issues[j].severity = "suggestion"
           /\ score.earned_points = 5 - 2 * Len(score.issues)
           /\ score.earned_points \in {5, 3, 1}

\* endings and capitalizations both inconsistent: two suggestions, 1 point
BothInconsistent ==
  /\ Succeeded /\ FlatCall
  /\ ClassesDiffer(EndingsOfCall) /\ ClassesDiffer(CapitalizationsOfCall)
  /\ Len(ScoreOf("FORMATTING").issues) = 2
  /\ ScoreOf("FORMATTING").earned_points = 1

\* the text lengths of all the items of a tree, children at every depth included
RECURSIVE TreeLengths(_)
TreeLengths(items) ==
  IF Len(items) = 0 THEN <<>>
  ELSE <<Len(Text(items[1]))>> \o TreeLengths(ChildrenOf(items[1])) \o TreeLengths(Tail(items))

\* the penalty LINE_LENGTH puts on a text of L characters
LengthPenalty(L) ==
  IF L > 80 THEN 5
  ELSE IF L > 75 THEN 2
  ELSE IF 0 < L /\ L < 40 THEN 1
  ELSE 0

IssuesOfSeverity(issues, severity) ==
  Cardinality({j \in 1..Len(issues) : issues[j].severity = severity})

\* C22: every item of the tree, at every depth, is checked once by its text
\* length L and contributes at most one LINE_LENGTH issue: a warning and 5 for
\* L > 80, a suggestion and 2 for 75 < L <= 80, a suggestion and 1 for
\* 0 < L < 40, nothing for 40 <= L <= 75 and for L = 0; the rule earns
\* max(0, 15 - the sum of the penalties).
LineLengthByItem ==
  (Succeeded /\ FlatCall) =>
    \A score \in {ScoreOf("LINE_LENGTH")} : \A lengths \in {TreeLengths(FlatItems)} :
      /\ score.max_points = 15
      /\ IssuesOfSeverity(score.issues, "warning")
           = Cardinality({k \in 1..Len(lengths) : lengths[k] > 80})
      /\ IssuesOfSeverity(score.issues, "suggestion")
           = Cardinality({k \in 1..Len(lengths) :
                            (75 < lengths[k] /\ lengths[k] <= 80)
                              \/ (0 < lengths[k] /\ lengths[k] < 40)})
      /\ Len(score.issues)
           = IssuesOfSeverity(score.issues, "warning")
               + IssuesOfSeverity(score.issues, "suggestion")
      /\ score.earned_points
           = FlooredAtZero(15 - SumSeq([k \in 1..Len(lengths) |-> LengthPenalty(lengths[k])]))

\* a tree with texts of 39, 76, 80, 81 and 0 characters below and 40 and 75 beside:
\* penalties 1 + 2 + 2 + 5, four issues, 5 points
EveryThresholdMet ==
  /\ Succeeded /\ FlatCall
  /\ TreeLengths(FlatItems) = <<39, 76, 80, 81, 0, 40, 75>>
  /\ Len(ScoreOf("LINE_LENGTH").issues) = 4
  /\ ScoreOf("LINE_LENGTH").earned_points = 5

\* the points the sections earned (field "earned_points") or could earn (field
\* "max_points") under the r-th rule, in section order
SectionPoints(r, field) ==
  [k \in 1..Len(Get(input, "sections").v) |-> ValidatorsRun(SectionItems(k))[r][field]]

\* C23: in sectioned mode the report's scores list has exactly one merged
\* RuleScore per rule, seven in the fixed validator order; each merged
\* max_points is the rounded mean of the rule's max_points across the sections,
\* which is the rule's fixed maximum, each merged earned_points is the rounded
\* mean of the rule's earned_points across the sections, and
\* 0 <= merged earned_points <= merged max_points.
MergedRuleScoresAreMeans ==
  (Succeeded /\ SectionedCall) =>
    \A scores \in {response.content.scores} : \A n \in {Len(Get(input, "sections").v)} :
      /\ Len(scores) = 7
      /\ \A r \in 1..7 :
           /\ scores[r].rule = RuleMaxima[r].rule
           /\ scores[r].max_points = RuleMaxima[r].max
           /\ IsRounded(scores[r].max_points, SumSeq(SectionPoints(r, "max_points")), n)
           /\ IsRounded(scores[r].earned_points, SumSeq(SectionPoints(r, "earned_points")), n)
           /\ 0 <= scores[r].earned_points
           /\ scores[r].earned_points <= scores[r].max_points

\* two sections whose LINE_LENGTH points add up to an odd number: the mean ends
\* in .5 and the merged score is the next integer above it
MergedEarnedRounded ==
  /\ Succeeded /\ SectionedCall
  /\ Len(Get(input, "sections").v) = 2
  /\ SumSeq(SectionPoints(3, "earned_points")) % 2 = 1
  /\ response.content.scores[3].rule = "LINE_LENGTH"
  /\ 2 * response.content.scores[3].earned_points = SumSeq(SectionPoints(3, "earned_points")) + 1

\* an issue without one of its fields
WithoutField(issue, field) == [f \in DOMAIN issue \ {field} |-> issue[f]]
SeqWithoutField(issues, field) == [j \in 1..Len(issues) |-> WithoutField(issues[j], field)]

\* how often each element occurs in a sequence
Tally(seq) ==
  [x \in {seq[j] : j \in 1..Len(seq)} |-> Cardinality({j \in 1..Len(seq) : seq[j] = x})]

\* the issues the validators produce for section k under the r-th rule, as the
\* report shows them: the message behind the section's title in brackets
TitledIssues(k, r) ==
  LET produced == ValidatorsRun(SectionItems(k))[r].issues
      title == Get(Get(input, "sections").v[k], "title").v
  IN [j \in 1..Len(produced) |->
       [f \in DOMAIN produced[j] |->
          IF f = "message" THEN "[" \o title \o "] " \o produced[j].message
          ELSE produced[j][f]]]

SectionIssues(k) == Flatten([r \in 1..7 |-> TitledIssues(k, r)])

\* C24: in sectioned mode every issue produced for a section appears, its
\* message prefixed by the section's title in brackets, in that section's
\* SectionScore, in exactly one severity bucket of the report (there under the
\* bucket's severity) and in the merged RuleScore of its rule (there without
\* its citation when citations are off); each merged rule's issue list is the
\* concatenation, in section order, of that rule's issues; the numbers of
\* issues in scores, in the three buckets together and in all section_scores
\* together are equal.
SectionedIssuesKept ==
  (Succeeded /\ SectionedCall) =>
    \A report \in {response.content} : \A n \in {Len(Get(input, "sections").v)} :
      \A buckets \in {report.errors \o report.warnings \o report.suggestions} :
        /\ \A k \in 1..n : report.section_scores[k].issues = SectionIssues(k)
        /\ \A r \in 1..7 :
             SeqWithoutField(report.scores[r].issues, "research_basis")
               = SeqWithoutField(Flatten([k \in 1..n |-> TitledIssues(k, r)]), "research_basis")
        /\ Tally(SeqWithoutField(buckets, "severity"))
             = Tally(SeqWithoutField(Flatten([k \in 1..n |-> SectionIssues(k)]), "severity"))
        /\ \A j \in 1..Len(report.errors) : report.errors[j].severity = "error"
        /\ \A j \in 1..Len(report.warnings) : report.warnings[j].severity = "warning"
        /\ \A j \in 1..Len(report.suggestions) : report.suggestions[j].severity = "suggestion"
        /\ Len(buckets) = SumSeq([r \in 1..7 |-> Len(report.scores[r].issues)])
        /\ Len(buckets) = SumSeq([k \in 1..n |-> Len(report.section_scores[k].issues)])

\* two sections of different titles both short of items: the merged LIST_LENGTH
\* score lists the first section's issue before the second's
TwoSectionsOneRule ==
  /\ Succeeded /\ SectionedCall
  /\ Len(Get(input, "sections").v) = 2
  /\ Get(Get(input, "sections").v[1], "title") # Get(Get(input, "sections").v[2], "title")
  /\ Len(TitledIssues(1, 1)) = 1 /\ Len(TitledIssues(2, 1)) = 1
  /\ response.content.scores[1].issues[1].message = TitledIssues(1, 1)[1].message
  /\ response.content.scores[1].issues[2].message = TitledIssues(2, 1)[1].message

\* the top-level items the call is about: the flat list, or the sections' items
\* one section after the other
ItemsOfCall ==
  IF SectionedCall
  THEN Flatten([k \in 1..Len(Get(input, "sections").v) |-> SectionItems(k)])
  ELSE FlatItems

\* the distinct patterns other than `unknown` among the top-level items
KnownPatternsOfCall ==
  {p \in {IF server = "single-mode" THEN patternOfSingle(Text(ItemsOfCall[k]))
          ELSE patternOf(Text(ItemsOfCall[k])) : k \in 1..Len(ItemsOfCall)} : p # "unknown"}

HasFeedback(report) ==
  "context_feedback" \in DOMAIN report /\ report.context_feedback # ""

\* the decision table of the context advisor outside `presentation`, read off
\* the report of the call
AdvisedByTable ==
  \A report \in {response.content} : \A context \in {Get(input, "context")} :
    /\ context = Str("reference") =>
         /\ report.context_fit = "good"
              <=> (NestingDepth(ItemsOfCall) = 1 /\ Len(ItemsOfCall) > 5)
         /\ report.context_fit # "good" => report.context_fit = "excellent"
         /\ HasFeedback(report)
    /\ context \notin {Str("reference"), Str("presentation")} =>
         /\ (report.context_fit = "good" /\ HasFeedback(report))
              <=> Cardinality(KnownPatternsOfCall) > 2
         /\ Cardinality(KnownPatternsOfCall) <= 2 =>
              (report.context_fit = "excellent" /\ "context_feedback" \notin DOMAIN report)
    /\ report.context_fit = "poor" => context = Str("presentation")

\* C25: with context `reference` the fit is `good` iff the maximum depth is 1
\* and there are more than 5 items, `excellent` otherwise, with a non-empty
\* feedback either way; with `document`, no context or any other value the fit
\* is `good` with feedback iff more than 2 distinct non-unknown patterns occur
\* among the items, otherwise `excellent` without feedback; `poor` is returned
\* only for `presentation`; in sectioned mode the decision is taken on all the
\* sections' items together under the global context only.
ContextAdvisorTable ==
  Succeeded => AdvisedByTable

BothScored == "guarded" \in DOMAIN response

\* C26: for every list of item patterns, of any length and any mix of the five
\* classifications, validateStructure without the dominantPattern guard
\* (single-mode) and with it (sections-capable) return the same earned_points
\* and the same sequence of issues.
StructureGuardRedundant ==
  BothScored =>
    /\ response.guarded.earned_points = response.unguarded.earned_points
    /\ response.guarded.issues = response.unguarded.issues

\* two patterns tied for the most frequent, and both copies flag the two items
\* of the one that comes later
TiedPatternsBothFlag ==
  /\ BothScored
  /\ input.patterns = <<"sentence", "verb-gerund", "unknown", "verb-gerund", "sentence">>
  /\ Len(response.guarded.issues) = 2
  /\ Len(response.unguarded.issues) = 2
  /\ response.unguarded.earned_points = 12

\* the report the same server gives the same request with strictMode the other
\* way round
OtherStrictness ==
  AnalyzedWith([config EXCEPT !.validation.strictMode = ~config.validation.strictMode]).content

\* C27: strict mode only moves issues between buckets: for every valid input,
\* flat or sectioned, the overall score, the grade, every rule's max_points and
\* earned_points, the issues inside scores with their severities, the
\* suggestions bucket and the top improvements are the same with strictMode on
\* and off.
StrictModeOnlyRebuckets ==
  Succeeded =>
    \A report \in {response.content} : \A other \in {OtherStrictness} :
      /\ report.overall_score = other.overall_score
      /\ report.grade = other.grade
      /\ report.scores = other.scores
      /\ report.suggestions = other.suggestions
      /\ report.top_improvements = other.top_improvements

\* two sections analysed under strict mode: a warning sits among the errors,
\* and its suggestion is still among the top improvements
StrictSectionsRebucketed ==
  /\ Succeeded /\ SectionedCall /\ config.validation.strictMode
  /\ Len(response.content.section_scores) = 2
  /\ response.content.warnings = <<>>
  /\ Len(response.content.errors) > Len(OtherStrictness.errors)
  /\ \E j \in 1..Len(OtherStrictness.warnings) :
       \E i \in 1..Len(response.content.top_improvements.items) :
         response.content.top_improvements.items[i] = OtherStrictness.warnings[j].suggestion

\* some issue of the report, in a bucket or under scores, has severity `error`
SomeErrorIssue(report) ==
  \/ \E bucket \in {report.errors, report.warnings, report.suggestions} :
       \E j \in 1..Len(bucket) : bucket[j].severity = "error"
  \/ \E k \in 1..Len(report.scores) :
       \E j \in 1..Len(report.scores[k].issues) : report.scores[k].issues[j].severity = "error"

\* C28: with strict mode off, a flat report that contains an issue of severity
\* `error` has overall_score <= 85 and so a grade other than A; a flat report
\* with overall_score >= 90 has an empty errors bucket and the summary
\* "Excellent bullet list following evidence-based best practices."
ErrorCapsFlatScore ==
  (Succeeded /\ FlatCall /\ ~config.validation.strictMode) =>
    \A report \in {response.content} :
      /\ SomeErrorIssue(report) => (report.overall_score <= 85 /\ report.grade # "A")
      /\ report.overall_score >= 90 =>
           /\ report.errors = <<>>
           /\ ~SomeErrorIssue(report)
           /\ report.summary = "Excellent bullet list following evidence-based best practices."

\* a list whose only flaw is its depth of 4: one error, and the score is 85
DepthErrorAtCap ==
  /\ Succeeded /\ FlatCall /\ ~config.validation.strictMode
  /\ Len(response.content.errors) = 1
  /\ response.content.errors[1].rule = "HIERARCHY"
  /\ response.content.overall_score = 85
  /\ response.content.grade = "B"

\* C29: the item_index of LINE_LENGTH issues (the index of a top-level item,
\* parentIndex*100 + childIndex for a child, applied recursively) identifies
\* items uniquely: two LINE_LENGTH issues raised for two different items of one
\* tree never carry the same item_index.
LineLengthIndexUnique ==
  (Succeeded /\ FlatCall) =>
    \A issues \in {ScoreOf("LINE_LENGTH").issues} :
      \A i \in 1..Len(issues) : \A j \in 1..Len(issues) :
        i # j => issues[i].item_index # issues[j].item_index

\* C30 as stated: for every valid sectioned input, overall_score equals
\* round(sum of earned_points / sum of max_points * 100) computed over the
\* merged per-rule scores listed in the report's scores field, as it does for
\* flat input.
SectionedScoreFromMergedScores ==
  (Succeeded /\ SectionedCall) =>
    \A report \in {response.content} :
      IsRounded(report.overall_score,
                100 * SumSeq([k \in 1..Len(report.scores) |-> report.scores[k].earned_points]),
                SumSeq([k \in 1..Len(report.scores) |-> report.scores[k].max_points]))

\* round(sum of earned_points / sum of max_points * 100) over the scores field
\* is n
ScoreFromListed(report, n) ==
  IsRounded(n, 100 * SumSeq([k \in 1..Len(report.scores) |-> report.scores[k].earned_points]),
            SumSeq([k \in 1..Len(report.scores) |-> report.scores[k].max_points]))

\* every merged earned_points is the exact mean of the sections' points: no
\* rule's mean had to be rounded
NoMergedScoreRounded ==
  \A r \in 1..7 :
    SumSeq(SectionPoints(r, "earned_points")) % Len(Get(input, "sections").v) = 0

\* C30: for every valid sectioned input, overall_score equals
\* round(sum of earned_points / sum of max_points * 100) over the merged
\* per-rule scores of the scores field, as it does for flat input, whenever no
\* merged score had to be rounded, in particular whenever there is one
\* section; otherwise it is within 3 points of that figure.
SectionedScoreNearMergedScores ==
  (Succeeded /\ SectionedCall) =>
    \A report \in {response.content} :
      /\ Len(report.section_scores) = 1 => NoMergedScoreRounded
      /\ NoMergedScoreRounded => ScoreFromListed(report, report.overall_score)
      /\ \E n \in (report.overall_score - 3)..(report.overall_score + 3) :
           ScoreFromListed(report, n)

\* two sections of 95 and 76 points whose means under five rules end in .5: the
\* overall score is 86 and the listed scores add up to 88
MergedScoresAboveOverall ==
  /\ Succeeded /\ SectionedCall
  /\ Len(response.content.section_scores) = 2
  /\ response.content.section_scores[1].score = 95
  /\ response.content.section_scores[2].score = 76
  /\ response.content.overall_score = 86
  /\ ~NoMergedScoreRounded
  /\ ScoreFromListed(response.content, 88)

====
